---- MODULE Spec2Model ----
(***************************************************************************)
(* A model of the chizuql SQL builder: the Query aggregate and its fluent  *)
(* accumulator calls, the expression IR, and the render protocol that      *)
(* threads one build context through the statement tree.                   *)
(*                                                                         *)
(* SQL text is a sequence of tokens.  A token is a record                  *)
(*   s : the characters of the token (a word, a symbol or one space " ")   *)
(*   n : the index handed to Dialect.placeholder when the token is a       *)
(*       placeholder issued by nextPlaceholder, 0 otherwise                *)
(*   a : the positions in ctx.args of the values the token binds           *)
(* The fields n and a are observation only: the text proper is the         *)
(* projection on s.  The build context carries a trace of its own          *)
(* mutations, observation only as well.                                    *)
(***************************************************************************)
EXTENDS Integers, Sequences, FiniteSets, TLC

VARIABLES
  heap,            \* the Query objects, by identity
  defaultDialect,  \* the package-wide default dialect
  out,             \* what the last Build returned, until the next accumulator call
  err,             \* the panic of the last accumulator call ("" when it returned)
  fuel,            \* accumulator calls left to the caller
  firstKind,       \* per Query, the statement kind established first (observation)
  pageCalls,       \* per Query, the last Limit/Offset arguments by the moment of the call (observation)
  lastCall,        \* the last call that can panic: its receiver before the call and its arguments (observation)
  origin,          \* per Query, the default dialect in force at its creation and whether WithDialect was called (observation)
  threads,         \* per goroutine, the call it is in: its position and its locals
  contexts,        \* the build contexts allocated by the Build calls in progress
  defaultTextSearchConfig,  \* the package-wide default text search configuration
  locks,           \* defaultDialectMu and defaultTextSearchConfigMu: the writer and the readers inside
  settled          \* per setting, the value of the last setter call of a goroutine that returned (observation)

vars ==
  <<heap, defaultDialect, out, err, fuel, firstKind, pageCalls, lastCall, origin, threads,
    contexts, defaultTextSearchConfig, locks, settled>>

(***************************************************************************)
(* Bounds of the model.                                                    *)
(***************************************************************************)
MaxQueries == 3

MaxThreads == 2

MaxCTEs == 3

QIds == 1..MaxQueries

(***************************************************************************)
(* Text.                                                                   *)
(***************************************************************************)
Tok(s) == IF s = "" THEN <<>> ELSE <<[s |-> s, n |-> 0, a |-> <<>>]>>

SP == Tok(" ")

Comma == Tok(",") \o SP

Paren(text) == Tok("(") \o text \o Tok(")")

RECURSIVE StringsJoin(_, _)
StringsJoin(parts, sep) ==
  IF parts = <<>> THEN <<>>
  ELSE IF Len(parts) = 1 THEN parts[1]
  ELSE parts[1] \o sep \o StringsJoin(Tail(parts), sep)

JoinWords(words) == StringsJoin([i \in DOMAIN words |-> Tok(words[i])], Comma)

RECURSIVE TrimLeft(_)
TrimLeft(text) ==
  IF text # <<>> /\ Head(text).s = " " THEN TrimLeft(Tail(text)) ELSE text

RECURSIVE TrimRight(_)
TrimRight(text) ==
  IF text # <<>> /\ text[Len(text)].s = " "
  THEN TrimRight(SubSeq(text, 1, Len(text) - 1))
  ELSE text

TrimSpace(text) == TrimRight(TrimLeft(text))

(***************************************************************************)
(* Dialects.                                                               *)
(***************************************************************************)
dialectMySQL == "mysql"

dialectPostgres == "postgres"

NilDialect == ""

Dialects == {dialectMySQL, dialectPostgres}

\* A Dialect of another package: a struct that embeds DialectMySQL, and so
\* has its placeholder method and no Kind method.
dialectOpaque == "opaque"

placeholder(d, i) == IF d = dialectPostgres THEN "$" \o ToString(i) ELSE "?"

(***************************************************************************)
(* Nodes of the IR.  Every node is a record of the same shape              *)
(*   k kind, s and t strings, v a list of strings, c the child nodes,      *)
(*   q a Query id (0: none), b a flag                                      *)
(* and the kind says which fields are meaningful.                          *)
(***************************************************************************)
Node(k, s, t, v, c, q, b) ==
  [k |-> k, s |-> s, t |-> t, v |-> v, c |-> c, q |-> q, b |-> b]

NilNode == Node("nil", "", "", <<>>, <<>>, 0, FALSE)

\* Go values handed to the API as `any`: a literal, a string, a *Query.
Lit(v) == Node("lit", v, "", <<>>, <<>>, 0, FALSE)

Str(s) == Node("str", s, "", <<>>, <<>>, 0, FALSE)

QPtr(q) == Node("qptr", "", "", <<>>, <<>>, q, FALSE)

Col(name) == Node("col", name, "", <<>>, <<>>, 0, FALSE)

ColAlias(name, alias) == Node("col", name, alias, <<>>, <<>>, 0, FALSE)

Value(v) == Node("val", v, "", <<>>, <<>>, 0, FALSE)

Raw(sql, args) == Node("raw", sql, "", args, <<>>, 0, FALSE)

subqueryExpr(q) == Node("subq", "", "", <<>>, <<>>, q, FALSE)

toValueExpression(value) ==
  CASE value.k = "qptr" -> subqueryExpr(value.q)
    [] value.k \in {"lit", "str"} -> Value(value.s)
    [] OTHER -> value

toValueExpressions(values) == [i \in DOMAIN values |-> toValueExpression(values[i])]

toSQLExpression(value) ==
  IF value.k = "str" THEN Raw(value.s, <<>>) ELSE toValueExpression(value)

toSQLExpressions(values) == [i \in DOMAIN values |-> toSQLExpression(values[i])]

comparison(left, op, right) == Node("cmp", op, "", <<>>, <<left, right>>, 0, FALSE)

Eq(c, value) == comparison(c, "=", toValueExpression(value))

Gt(c, value) == comparison(c, ">", toValueExpression(value))

Like(c, value) == comparison(c, "LIKE", toValueExpression(value))

inPredicate(left, list) == Node("in", "", "", <<>>, <<left>> \o list, 0, FALSE)

Between(c, start, end) ==
  Node("between", "", "", <<>>,
       <<c, toValueExpression(start), toValueExpression(end)>>, 0, FALSE)

NotBetween(c, start, end) ==
  Node("between", "", "", <<>>,
       <<c, toValueExpression(start), toValueExpression(end)>>, 0, TRUE)

IsNull(c) == Node("unary", "IS NULL", "", <<>>, <<c>>, 0, FALSE)

And(predicates) == Node("compound", "AND", "", <<>>, predicates, 0, FALSE)

Or(predicates) == Node("compound", "OR", "", <<>>, predicates, 0, FALSE)

Not(predicate) == Node("not", "", "", <<>>, <<predicate>>, 0, FALSE)

Func(name, args) == Node("func", name, "", <<>>, toSQLExpressions(args), 0, FALSE)

ExprList(items) == Node("list", "", "", <<>>, items, 0, FALSE)

\* WindowSpec: c[1] the PARTITION BY list, c[2] the ORDER BY list, s the
\* frame's text ("" when the frame pointer is nil).
WindowSpec(partitionBy, orderBy, frame) ==
  Node("wspec", frame, "", <<>>,
       <<ExprList(toSQLExpressions(partitionBy)), ExprList(toSQLExpressions(orderBy))>>,
       0, FALSE)

Over(expr, spec) == Node("window", "", "", <<>>, <<expr, spec>>, 0, FALSE)

Desc(c) == Node("ordered", "DESC", "", <<>>, <<c>>, 0, FALSE)

Asc(c) == Node("ordered", "ASC", "", <<>>, <<c>>, 0, FALSE)

JSONExtract(column, path) ==
  Node("jsonx", column, "", <<>>, <<toValueExpression(path)>>, 0, FALSE)

JSONExtractText(column, path) ==
  Node("jsonx", column, "", <<>>, <<toValueExpression(path)>>, 0, TRUE)

JSONContains(column, value) ==
  Node("jsonc", column, "", <<>>, <<toValueExpression(value)>>, 0, FALSE)

\* Match(columns...).Against(query, mode...)
MatchAgainst(columns, query, mode) == Node("match", columns, mode, <<query>>, <<>>, 0, FALSE)

\* TsVector(columns...) under the default configuration config, and the
\* predicates and scores made from a builder t.
TsVector(config, columns) == [config |-> config, columns |-> columns]

WithConfig(t, config) == [t EXCEPT !.config = config]

WebSearch(t, query) == Node("tsquery", query, t.config, t.columns, <<>>, 0, TRUE)

PlainQuery(t, query) == Node("tsquery", query, t.config, t.columns, <<>>, 0, FALSE)

\* The normalization of a score: "" when none was given.
pickNormalization(values) == IF Len(values) = 0 THEN "" ELSE ToString(values[1])

RankWebSearch(t, query, normalization) ==
  Node("tsrank", query, t.config, <<pickNormalization(normalization)>> \o t.columns,
       <<>>, 0, TRUE)

RankPlainQuery(t, query, normalization) ==
  Node("tsrank", query, t.config, <<pickNormalization(normalization)>> \o t.columns,
       <<>>, 0, FALSE)

\* Table expressions, joins, SET clauses and CTEs.
TableRef(name, alias, sub) == Node("table", name, alias, <<>>, <<>>, sub, FALSE)

FromSubquery(q, alias) == TableRef("", alias, q)

toTableExpression(value) ==
  CASE value.k = "qptr" -> FromSubquery(value.q, "")
    [] value.k = "str" -> TableRef(value.s, "", 0)
    [] OTHER -> value

joinClause(kind, table, on) == Node("join", kind, "", <<>>, <<table, on>>, 0, FALSE)

Set(column, value) == Node("set", column, "", <<>>, <<toValueExpression(value)>>, 0, FALSE)

cte(name, query, columns, recursive) == Node("cte", name, "", columns, <<>>, query, recursive)

unionClause(query, all) == Node("union", "", "", <<>>, <<>>, query, all)

(***************************************************************************)
(* The build context.                                                      *)
(***************************************************************************)
\* An entry of the context's trace: what happened, on which Query, with
\* which number (the placeholder index, the alias number, the count of raw
\* args), and the argument and placeholder counts as the step leaves them.
Ev(ev, q, n, m, p) == [ev |-> ev, q |-> q, n |-> n, m |-> m, p |-> p]

newBuildContext(dialect) ==
  [args |-> <<>>, dialect |-> dialect, placeholderIndex |-> 0, subqueryAlias |-> 0,
   subqueryAliases |-> [q \in QIds |-> ""], panic |-> "", trace |-> <<>>]

R(ctx, sql) == [ctx |-> ctx, sql |-> sql]

Log(ctx, ev, q, n) ==
  IF ctx.panic # "" THEN ctx
  ELSE [ctx EXCEPT !.trace = Append(@, Ev(ev, q, n, Len(ctx.args), ctx.placeholderIndex))]

Raise(ctx, msg) == IF ctx.panic = "" THEN [ctx EXCEPT !.panic = msg] ELSE ctx

\* A placeholder request that binds its value twice.
nextPlaceholderTwice(ctx, arg) ==
  LET idx == ctx.placeholderIndex + 1
      pl == placeholder(ctx.dialect, idx)
      c1 == [ctx EXCEPT !.placeholderIndex = idx, !.args = @ \o <<arg, arg>>]
  IN R(Log(c1, "ph", 0, idx), <<[s |-> pl, n |-> idx, a |-> <<Len(c1.args)>>]>>)

\* A placeholder request that writes the value into the text under Postgres.
nextPlaceholderInline(ctx, arg) ==
  LET idx == ctx.placeholderIndex + 1
      pl == placeholder(ctx.dialect, idx)
      c1 == [ctx EXCEPT !.placeholderIndex = idx, !.args = Append(@, arg)]
  IN IF ctx.dialect = dialectPostgres THEN R(Log(ctx, "ph", 0, idx), Tok(arg))
     ELSE R(Log(c1, "ph", 0, idx), <<[s |-> pl, n |-> idx, a |-> <<Len(c1.args)>>]>>)

nextPlaceholder(ctx, arg) ==
  LET idx == ctx.placeholderIndex + 1
      pl == placeholder(ctx.dialect, idx)
      c1 == [ctx EXCEPT !.placeholderIndex = idx, !.args = Append(@, arg)]
  IN R(Log(c1, "ph", 0, idx), <<[s |-> pl, n |-> idx, a |-> <<Len(c1.args)>>]>>)

\* An alias generator that does not remember the Query it served.
nextSubqueryAliasForgetful(ctx, q) ==
  LET num == ctx.subqueryAlias + 1
      alias == "subq_" \o ToString(num)
      c1 == [ctx EXCEPT !.subqueryAlias = num, !.subqueryAliases[q] = alias]
  IN [ctx |-> Log(c1, "alias", q, num), alias |-> alias]

\* nextSubqueryAlias that enters the alias without advancing the counter.
nextSubqueryAliasUncounted(ctx, q) ==
  IF ctx.subqueryAliases[q] # "" THEN [ctx |-> ctx, alias |-> ctx.subqueryAliases[q]]
  ELSE LET num == ctx.subqueryAlias + 1
           alias == "subq_" \o ToString(num)
           c1 == [ctx EXCEPT !.subqueryAliases[q] = alias]
       IN [ctx |-> Log(c1, "alias", q, num), alias |-> alias]

nextSubqueryAlias(ctx, q) ==
  IF ctx.subqueryAliases[q] # "" THEN [ctx |-> ctx, alias |-> ctx.subqueryAliases[q]]
  ELSE LET num == ctx.subqueryAlias + 1
           alias == "subq_" \o ToString(num)
           c1 == [ctx EXCEPT !.subqueryAlias = num, !.subqueryAliases[q] = alias]
       IN [ctx |-> Log(c1, "alias", q, num), alias |-> alias]

\* requireDialect that lets every dialect pass.
requireDialectAny(ctx, expected, feature) == ctx

dialectKindOf(d) == IF d \in Dialects THEN [kind |-> d, ok |-> TRUE] ELSE [kind |-> "", ok |-> FALSE]

requireDialect(ctx, expected, feature) ==
  LET k == dialectKindOf(ctx.dialect)
  IN IF ~k.ok THEN Raise(ctx, feature \o " requer um dialeto reconhecido")
     ELSE IF k.kind # expected
          THEN Raise(ctx, feature \o " e suportado apenas no dialeto " \o expected)
          ELSE ctx

(***************************************************************************)
(* The Query aggregate.  A pointer field that is nil holds Nil (ints) or   *)
(* NilNode (predicates and table expressions).                             *)
(***************************************************************************)
queryTypeSelect == "SELECT"

queryTypeInsert == "INSERT"

queryTypeUpdate == "UPDATE"

queryTypeDelete == "DELETE"

queryTypeRaw == "RAW"

Nil == -1

\* The zero value of the struct; alive says that the object was allocated.
ZeroQuery ==
  [alive |-> FALSE, qType |-> "", dialect |-> NilDialect, rawSQL |-> <<>>, rawArgs |-> <<>>,
   ctes |-> <<>>, unions |-> <<>>, selectColumns |-> <<>>, distinct |-> FALSE,
   from |-> NilNode, joins |-> <<>>, where |-> NilNode, groupBy |-> <<>>,
   having |-> NilNode, orderBy |-> <<>>, limit |-> Nil, offset |-> Nil,
   setLimit |-> Nil, setOffset |-> Nil,
   insertTable |-> NilNode, insertCols |-> <<>>, insertValues |-> <<>>,
   onConflictTarget |-> <<>>, onConflictSet |-> <<>>, onConflictDoNothing |-> FALSE,
   updateTable |-> NilNode, setClauses |-> <<>>, deleteTable |-> NilNode,
   returning |-> <<>>]

New(dd) == [ZeroQuery EXCEPT !.alive = TRUE, !.dialect = dd]

RawQuery(sql, args) ==
  [ZeroQuery EXCEPT !.alive = TRUE, !.qType = queryTypeRaw, !.rawSQL = sql, !.rawArgs = args]

(***************************************************************************)
(* Rendering.  Every build takes the heap of Query objects, the build      *)
(* context and a node, and returns the context as the call leaves it       *)
(* together with the text it produced.  A node builds its children in the  *)
(* order in which the code evaluates them, each on the context the one     *)
(* before leaves, and then formats their fragments.  A panic is kept in    *)
(* ctx.panic: once raised, no later build touches the context, and Build   *)
(* returns nothing.                                                        *)
(*                                                                         *)
(* A function of the code that builds expressions and writes text is two   *)
(* definitions here: the expressions it builds, in order (its Items), and  *)
(* the text it writes from their fragments (under the function's name).    *)
(***************************************************************************)
\* The place in a list of items where the code panics.
PanicNode(msg) == Node("panic", msg, "", <<>>, <<>>, 0, FALSE)

\* strings.ToUpper on the order words.
ToUpper(s) ==
  CASE s = "asc" -> "ASC"
    [] s = "desc" -> "DESC"
    [] OTHER -> s

\* extractOrdering that takes every ordering for ascending.
extractOrderingAscending(expr) ==
  IF expr.k = "ordered" THEN [expr |-> expr.c[1], direction |-> "ASC"]
  ELSE [expr |-> expr, direction |-> "ASC"]

extractOrdering(expr) ==
  IF expr.k = "ordered" THEN [expr |-> expr.c[1], direction |-> ToUpper(expr.s)]
  ELSE [expr |-> expr, direction |-> "ASC"]

\* buildKeysetPredicate that compares the ordering entries as they were given.
buildKeysetPredicateWrapped(ordering, cursorValues, forward) ==
  LET values == toValueExpressions(cursorValues)
      cmp(idx) ==
        LET base == IF forward THEN ">" ELSE "<"
        IN IF extractOrdering(ordering[idx]).direction = "DESC"
           THEN (IF base = ">" THEN "<" ELSE ">")
           ELSE base
      comparisons(idx) ==
        [i \in 1..idx |->
           IF i < idx THEN comparison(ordering[i], "=", values[i])
           ELSE comparison(ordering[idx], cmp(idx), values[idx])]
  IN IF Len(ordering) = 0
     THEN PanicNode("keyset pagination requer ao menos uma expressao de ordenacao")
     ELSE IF Len(ordering) # Len(cursorValues)
     THEN PanicNode("a quantidade de valores de cursor deve corresponder ao ORDER BY configurado")
     ELSE Or([idx \in 1..Len(ordering) |-> And(comparisons(idx))])

\* buildKeysetPredicate: the predicate it returns, or the panic that ends the call.
buildKeysetPredicate(ordering, cursorValues, forward) ==
  LET values == toValueExpressions(cursorValues)
      cmp(idx) ==
        LET base == IF forward THEN ">" ELSE "<"
        IN IF extractOrdering(ordering[idx]).direction = "DESC"
           THEN (IF base = ">" THEN "<" ELSE ">")
           ELSE base
      comparisons(idx) ==
        [i \in 1..idx |->
           IF i < idx THEN comparison(extractOrdering(ordering[i]).expr, "=", values[i])
           ELSE comparison(extractOrdering(ordering[idx]).expr, cmp(idx), values[idx])]
  IN IF Len(ordering) = 0
     THEN PanicNode("keyset pagination requer ao menos uma expressao de ordenacao")
     ELSE IF Len(ordering) # Len(cursorValues)
     THEN PanicNode("a quantidade de valores de cursor deve corresponder ao ORDER BY configurado")
     ELSE Or([idx \in 1..Len(ordering) |-> And(comparisons(idx))])

KeysetAfter(ordering, cursorValues) == buildKeysetPredicate(ordering, cursorValues, TRUE)

KeysetBefore(ordering, cursorValues) == buildKeysetPredicate(ordering, cursorValues, FALSE)

\* The fragments of a list, cut into consecutive groups of the given sizes.
RECURSIVE Cut(_, _)
Cut(parts, sizes) ==
  IF sizes = <<>> THEN <<>>
  ELSE <<SubSeq(parts, 1, Head(sizes))>>
         \o Cut(SubSeq(parts, Head(sizes) + 1, Len(parts)), Tail(sizes))

RECURSIVE Concat(_)
Concat(seqs) == IF seqs = <<>> THEN <<>> ELSE Head(seqs) \o Concat(Tail(seqs))

RECURSIVE build(_, _, _), buildAll(_, _, _), render(_, _, _)

\* The builds of a list of nodes, one after the other on the same context:
\* the first half of the list, then the second half on the context the
\* first half leaves.  After a panic nothing more is built.
buildAll(h, ctx, items) ==
  LET n == Len(items)
      one(r) == [ctx |-> r.ctx, parts |-> <<r.sql>>]
      both(l, r) == [ctx |-> r.ctx, parts |-> l.parts \o r.parts]
      then(l) ==
        IF l.ctx.panic # ""
        THEN [ctx |-> l.ctx, parts |-> [i \in 1..n |-> <<>>]]
        ELSE both(l, buildAll(h, l.ctx, SubSeq(items, (n \div 2) + 1, n)))
  IN CASE n = 0 -> [ctx |-> ctx, parts |-> <<>>]
       [] n = 1 -> one(build(h, ctx, items[1]))
       [] OTHER -> then(buildAll(h, ctx, SubSeq(items, 1, n \div 2)))

ColumnBuild(h, ctx, c) ==
  IF c.t # "" THEN R(ctx, Tok(c.s) \o SP \o Tok("AS") \o SP \o Tok(c.t))
  ELSE R(ctx, Tok(c.s))

valueExprBuild(h, ctx, v) == nextPlaceholder(Log(ctx, "val", 0, 0), v.s)

\* The fragment is one token; it binds the pre-supplied args it appends.
rawExprBuild(h, ctx, r) ==
  LET base == Len(ctx.args)
      c1 == [ctx EXCEPT !.args = @ \o r.v]
      text == IF r.s = "" THEN <<>>
              ELSE <<[s |-> r.s, n |-> 0, a |-> [i \in 1..Len(r.v) |-> base + i]]>>
  IN R(Log(c1, "raw", 0, Len(r.v)), text)

comparisonBuild(h, ctx, c) ==
  LET fmt(p) == [ctx |-> p.ctx, sql |-> p.parts[1] \o SP \o Tok(c.s) \o SP \o p.parts[2]]
  IN fmt(buildAll(h, ctx, c.c))

\* The items of the list are built before the left operand.
\* inPredicate.build with the check of the list left out.
inPredicateBuildUnchecked(h, ctx, i) ==
  LET n == Len(i.c)
      fmt(p) == [ctx |-> p.ctx,
                 sql |-> p.parts[n] \o SP \o Tok("IN") \o SP
                           \o Paren(StringsJoin(SubSeq(p.parts, 1, n - 1), Comma))]
  IN fmt(buildAll(h, ctx, Tail(i.c) \o <<i.c[1]>>))

inPredicateBuild(h, ctx, i) ==
  LET n == Len(i.c)
      fmt(p) == [ctx |-> p.ctx,
                 sql |-> p.parts[n] \o SP \o Tok("IN") \o SP
                           \o Paren(StringsJoin(SubSeq(p.parts, 1, n - 1), Comma))]
  IN IF n = 1 THEN R(Raise(ctx, "IN list cannot be empty"), <<>>)
     ELSE fmt(buildAll(h, ctx, Tail(i.c) \o <<i.c[1]>>))

betweenPredicateBuild(h, ctx, b) ==
  LET keyword == IF b.b THEN Tok("NOT BETWEEN") ELSE Tok("BETWEEN")
      fmt(p) == [ctx |-> p.ctx,
                 sql |-> p.parts[1] \o SP \o keyword \o SP \o p.parts[2] \o SP \o Tok("AND")
                           \o SP \o p.parts[3]]
  IN fmt(buildAll(h, ctx, b.c))

unaryPredicateBuild(h, ctx, u) ==
  LET fmt(l) == [ctx |-> l.ctx, sql |-> l.sql \o SP \o Tok(u.s)] IN fmt(build(h, ctx, u.c[1]))

\* A compound that keeps the empty fragments of its children.
compoundKeepEmpty(h, ctx, c) ==
  LET fmt(all) == [ctx |-> all.ctx, sql |-> Paren(StringsJoin(all.parts, SP \o Tok(c.s) \o SP))]
  IN fmt(buildAll(h, ctx, c.c))

compoundPredicateBuild(h, ctx, c) ==
  LET fragments(all) == SelectSeq(all.parts, LAMBDA f : f # <<>>)
      fmt(all) ==
        [ctx |-> all.ctx,
         sql |-> IF Len(fragments(all)) = 0 THEN <<>>
                 ELSE Paren(StringsJoin(fragments(all), SP \o Tok(c.s) \o SP))]
  IN IF Len(c.c) = 0 THEN R(ctx, <<>>) ELSE fmt(buildAll(h, ctx, c.c))

notPredicateBuild(h, ctx, n) ==
  LET fmt(p) == [ctx |-> p.ctx, sql |-> Tok("NOT") \o SP \o Paren(p.sql)]
  IN fmt(build(h, ctx, n.c[1]))

matchAgainstExprBuild(h, ctx, m) ==
  LET c0 == requireDialect(ctx, dialectMySQL, "MATCH ... AGAINST")
      fmt(pl) ==
        R(pl.ctx, Tok("MATCH") \o Paren(Tok(m.s)) \o SP \o Tok("AGAINST") \o SP
                    \o Paren(IF m.t # "" THEN pl.sql \o SP \o Tok("IN") \o SP \o Tok(m.t)
                             ELSE pl.sql))
  IN IF c0.panic # "" THEN R(c0, <<>>) ELSE fmt(nextPlaceholder(c0, m.v[1]))

\* The configurations with a single quote, as escapeSingleQuotes leaves them.
escapeSingleQuotes(value) ==
  CASE value = "it's" -> "it''s"
    [] value = "'" -> "''"
    [] OTHER -> value

concatColumns(columns) ==
  CASE Len(columns) = 0 -> Tok("''")
    [] Len(columns) = 1 -> Tok(columns[1])
    [] OTHER -> Tok("CONCAT_WS") \o Paren(Tok("' '") \o Comma \o JoinWords(columns))

\* TsVectorBuilder.buildTsQuery: the context it leaves, the vector and the query.
buildTsQuery(ctx, config, columns, query, web) ==
  LET c0 == requireDialect(ctx, dialectPostgres, "Full Text Search (tsvector)")
      quoted == Tok("'" \o escapeSingleQuotes(config) \o "'")
      fmt(pl) ==
        [ctx |-> pl.ctx,
         vector |-> Tok("to_tsvector") \o Paren(quoted \o Comma \o concatColumns(columns)),
         query |-> Tok(IF web THEN "websearch_to_tsquery" ELSE "plainto_tsquery")
                     \o Paren(quoted \o Comma \o pl.sql)]
  IN IF c0.panic # "" THEN [ctx |-> c0, vector |-> <<>>, query |-> <<>>]
     ELSE fmt(nextPlaceholder(c0, query))

tsQueryPredicateBuild(h, ctx, t) ==
  LET r == buildTsQuery(ctx, t.t, t.v, t.s, t.b)
  IN IF r.ctx.panic # "" THEN R(r.ctx, <<>>)
     ELSE R(r.ctx, r.vector \o SP \o Tok("@@") \o SP \o r.query)

tsRankExprBuild(h, ctx, t) ==
  LET r == buildTsQuery(ctx, t.t, Tail(t.v), t.s, t.b)
  IN IF r.ctx.panic # "" THEN R(r.ctx, <<>>)
     ELSE IF t.v[1] # ""
          THEN R(r.ctx, Tok("ts_rank") \o Paren(r.vector \o Comma \o r.query \o Comma
                                                  \o Tok(t.v[1])))
          ELSE R(r.ctx, Tok("ts_rank") \o Paren(r.vector \o Comma \o r.query))

FunctionExprBuild(h, ctx, f) ==
  LET fmt(params) ==
        [ctx |-> params.ctx, sql |-> Tok(f.s) \o Paren(StringsJoin(params.parts, Comma))]
  IN fmt(buildAll(h, ctx, f.c))

WindowSpecBuild(h, ctx, w) ==
  LET np == Len(w.c[1].c)
      no == Len(w.c[2].c)
      p1(p) == IF np > 0
               THEN <<Tok("PARTITION BY") \o SP \o StringsJoin(SubSeq(p.parts, 1, np), Comma)>>
               ELSE <<>>
      p2(p) == IF no > 0
               THEN <<Tok("ORDER BY") \o SP
                        \o StringsJoin(SubSeq(p.parts, np + 1, np + no), Comma)>>
               ELSE <<>>
      p3 == IF w.s # "" THEN <<Tok(w.s)>> ELSE <<>>
      fmt(p) == [ctx |-> p.ctx, sql |-> StringsJoin(p1(p) \o p2(p) \o p3, SP)]
  IN fmt(buildAll(h, ctx, w.c[1].c \o w.c[2].c))

\* The window specification is built before the wrapped expression.
windowExprBuild(h, ctx, w) ==
  LET fmt(p) ==
        [ctx |-> p.ctx,
         sql |-> IF TrimSpace(p.parts[1]) = <<>>
                 THEN p.parts[2] \o SP \o Tok("OVER") \o SP \o Tok("(") \o Tok(")")
                 ELSE p.parts[2] \o SP \o Tok("OVER") \o SP \o Paren(TrimSpace(p.parts[1]))]
  IN fmt(buildAll(h, ctx, <<w.c[2], w.c[1]>>))

orderedExprBuild(h, ctx, o) ==
  LET fmt(e) == [ctx |-> e.ctx, sql |-> e.sql \o SP \o Tok(o.s)] IN fmt(build(h, ctx, o.c[1]))

jsonExtractExprBuild(h, ctx, j) ==
  LET k == dialectKindOf(ctx.dialect)
      expr(path) ==
        IF k.kind = dialectMySQL
        THEN Tok("JSON_EXTRACT") \o Paren(Tok(j.s) \o Comma \o path.sql)
        ELSE Tok("jsonb_path_query_first")
               \o Paren(Tok("to_jsonb") \o Paren(Tok(j.s)) \o Comma
                          \o Paren(path.sql) \o Tok("::jsonpath"))
      fmt(path) ==
        [ctx |-> path.ctx,
         sql |-> IF ~j.b THEN expr(path)
                 ELSE IF k.kind = dialectMySQL THEN Tok("JSON_UNQUOTE") \o Paren(expr(path))
                 ELSE Paren(expr(path)) \o Tok("::text")]
  IN IF ~k.ok THEN R(Raise(ctx, "Extracao de JSON requer um dialeto reconhecido"), <<>>)
     ELSE fmt(build(h, ctx, j.c[1]))

jsonContainsPredicateBuild(h, ctx, j) ==
  LET k == dialectKindOf(ctx.dialect)
      fmt(value) ==
        [ctx |-> value.ctx,
         sql |-> IF k.kind = dialectMySQL
                 THEN Tok("JSON_CONTAINS") \o Paren(Tok(j.s) \o Comma \o value.sql)
                 ELSE Tok("to_jsonb") \o Paren(Tok(j.s)) \o SP \o Tok("@>") \o SP
                        \o Paren(value.sql) \o Tok("::jsonb")]
  IN IF ~k.ok THEN R(Raise(ctx, "JSON_CONTAINS requer um dialeto reconhecido"), <<>>)
     ELSE fmt(build(h, ctx, j.c[1]))

SetClauseBuild(h, ctx, s) ==
  LET fmt(v) == [ctx |-> v.ctx, sql |-> Tok(s.s) \o SP \o Tok("=") \o SP \o v.sql]
  IN fmt(build(h, ctx, s.c[1]))

joinClauseBuild(h, ctx, j) ==
  LET plain(t) == [ctx |-> t.ctx, sql |-> Tok(j.s) \o SP \o t.sql]
      withOn(p) == [ctx |-> p.ctx,
                    sql |-> Tok(j.s) \o SP \o p.parts[1] \o SP \o Tok("ON") \o SP \o p.parts[2]]
  IN IF j.c[2].k # "nil" THEN withOn(buildAll(h, ctx, j.c))
     ELSE plain(build(h, ctx, j.c[1]))

\* A subquery rendered with a placeholder counter of its own.
subqueryExprFresh(h, ctx, s) ==
  LET fmt(r) == [ctx |-> r.ctx, sql |-> Paren(r.sql)]
  IN fmt(render(h, [ctx EXCEPT !.placeholderIndex = 0], s.q))

subqueryExprBuild(h, ctx, s) ==
  LET fmt(r) == [ctx |-> r.ctx, sql |-> Paren(r.sql)] IN fmt(render(h, ctx, s.q))

\* A derived table takes its alias after its query has been rendered.
TableRefBuild(h, ctx, t) ==
  LET fmt(r) ==
        IF r.ctx.panic # "" THEN R(r.ctx, <<>>)
        ELSE LET al == IF t.t = "" THEN nextSubqueryAlias(r.ctx, t.q)
                       ELSE [ctx |-> r.ctx, alias |-> t.t]
             IN R(Log(al.ctx, "derived", t.q, 0),
                  Paren(r.sql) \o SP \o Tok("AS") \o SP \o Tok(al.alias))
  IN IF t.q # 0 THEN fmt(render(h, ctx, t.q))
     ELSE IF t.t # "" THEN R(ctx, Tok(t.s) \o SP \o Tok("AS") \o SP \o Tok(t.t))
          ELSE R(ctx, Tok(t.s))

\* cteBuild that renders the Query of the CTE under that Query's own dialect.
cteBuildOwnDialect(h, ctx, c) ==
  LET cols == IF Len(c.v) > 0 THEN SP \o Paren(JoinWords(c.v)) ELSE <<>>
      own == IF h[c.q].dialect = NilDialect THEN ctx.dialect ELSE h[c.q].dialect
      fmt(r) == [ctx |-> [r.ctx EXCEPT !.dialect = ctx.dialect],
                 sql |-> Tok(c.s) \o cols \o SP \o Tok("AS") \o SP \o Paren(r.sql)]
  IN fmt(render(h, [ctx EXCEPT !.dialect = own], c.q))

cteBuild(h, ctx, c) ==
  LET cols == IF Len(c.v) > 0 THEN SP \o Paren(JoinWords(c.v)) ELSE <<>>
      fmt(r) == [ctx |-> r.ctx,
                 sql |-> Tok(c.s) \o cols \o SP \o Tok("AS") \o SP \o Paren(r.sql)]
  IN fmt(render(h, ctx, c.q))

build(h, ctx, e) ==
  CASE ctx.panic # "" \/ e.k = "nil" -> R(ctx, <<>>)
    [] e.k = "col" -> ColumnBuild(h, ctx, e)
    [] e.k = "val" -> valueExprBuild(h, ctx, e)
    [] e.k = "raw" -> rawExprBuild(h, ctx, e)
    [] e.k = "subq" -> subqueryExprBuild(h, ctx, e)
    [] e.k = "cmp" -> comparisonBuild(h, ctx, e)
    [] e.k = "in" -> inPredicateBuild(h, ctx, e)
    [] e.k = "between" -> betweenPredicateBuild(h, ctx, e)
    [] e.k = "unary" -> unaryPredicateBuild(h, ctx, e)
    [] e.k = "compound" -> compoundPredicateBuild(h, ctx, e)
    [] e.k = "not" -> notPredicateBuild(h, ctx, e)
    [] e.k = "match" -> matchAgainstExprBuild(h, ctx, e)
    [] e.k = "tsquery" -> tsQueryPredicateBuild(h, ctx, e)
    [] e.k = "tsrank" -> tsRankExprBuild(h, ctx, e)
    [] e.k = "func" -> FunctionExprBuild(h, ctx, e)
    [] e.k = "wspec" -> WindowSpecBuild(h, ctx, e)
    [] e.k = "window" -> windowExprBuild(h, ctx, e)
    [] e.k = "ordered" -> orderedExprBuild(h, ctx, e)
    [] e.k = "jsonx" -> jsonExtractExprBuild(h, ctx, e)
    [] e.k = "jsonc" -> jsonContainsPredicateBuild(h, ctx, e)
    [] e.k = "table" -> TableRefBuild(h, ctx, e)
    [] e.k = "join" -> joinClauseBuild(h, ctx, e)
    [] e.k = "set" -> SetClauseBuild(h, ctx, e)
    [] e.k = "cte" -> cteBuild(h, ctx, e)
    [] e.k = "panic" -> R(Raise(ctx, e.s), <<>>)

(***************************************************************************)
(* Rendering of statements.                                                *)
(***************************************************************************)
\* The stored text of a RAW query; its first non-blank token binds the
\* stored arguments.
RECURSIVE RawText(_, _)
RawText(sql, bound) ==
  IF sql = <<>> THEN <<>>
  ELSE IF Head(sql) = " " THEN SP \o RawText(Tail(sql), bound)
  ELSE <<[s |-> Head(sql), n |-> 0, a |-> bound]>> \o RawText(Tail(sql), <<>>)

\* writeCTEs that looks for the recursive mark on the first CTE only.
writeCTEsFirstOnly(q, parts) ==
  IF Len(q.ctes) = 0 THEN <<>>
  ELSE Tok("WITH") \o SP
         \o (IF q.ctes[1].b THEN Tok("RECURSIVE") \o SP ELSE <<>>)
         \o StringsJoin(parts, Comma) \o SP

\* parts: the fragments of q.ctes.
writeCTEs(q, parts) ==
  IF Len(q.ctes) = 0 THEN <<>>
  ELSE Tok("WITH") \o SP
         \o (IF \E i \in DOMAIN q.ctes : q.ctes[i].b THEN Tok("RECURSIVE") \o SP ELSE <<>>)
         \o StringsJoin(parts, Comma) \o SP

\* clause: the fragment of pred.
buildPredicates(keyword, pred, clause) ==
  IF pred.k = "nil" \/ clause = <<>> THEN <<>>
  ELSE SP \o Tok(keyword) \o SP \o clause

\* parts: the fragments of q.orderBy.
appendOrdering(q, parts) ==
  IF Len(q.orderBy) > 0 THEN SP \o Tok("ORDER BY") \o SP \o StringsJoin(parts, Comma)
  ELSE <<>>

appendPagination(limit, offset) ==
  (IF limit # Nil THEN SP \o Tok("LIMIT") \o SP \o Tok(ToString(limit)) ELSE <<>>)
    \o (IF offset # Nil THEN SP \o Tok("OFFSET") \o SP \o Tok(ToString(offset)) ELSE <<>>)

\* The joins of a statement: a blank and the join, for every join.
writeJoins(parts) == Concat([i \in DOMAIN parts |-> SP \o parts[i]])

buildSelectItems(q, includeOrdering) ==
  q.selectColumns \o <<q.from>> \o q.joins \o <<q.where>> \o q.groupBy \o <<q.having>>
    \o (IF includeOrdering THEN q.orderBy ELSE <<>>)

buildSelect(q, includeOrdering, parts) ==
  LET g == Cut(parts, <<Len(q.selectColumns), 1, Len(q.joins), 1, Len(q.groupBy), 1,
                        IF includeOrdering THEN Len(q.orderBy) ELSE 0>>)
  IN Tok("SELECT") \o SP
       \o (IF q.distinct THEN Tok("DISTINCT") \o SP ELSE <<>>)
       \o (IF Len(q.selectColumns) > 0 THEN StringsJoin(g[1], Comma) ELSE Tok("*"))
       \o (IF q.from.k # "nil" THEN SP \o Tok("FROM") \o SP \o g[2][1] ELSE <<>>)
       \o writeJoins(g[3])
       \o buildPredicates("WHERE", q.where, g[4][1])
       \o (IF Len(q.groupBy) > 0
           THEN SP \o Tok("GROUP BY") \o SP \o StringsJoin(g[5], Comma) ELSE <<>>)
       \o buildPredicates("HAVING", q.having, g[6][1])
       \o (IF includeOrdering THEN appendOrdering(q, g[7]) ELSE <<>>)
       \o appendPagination(q.limit, q.offset)

renderSetOperandItems(q) ==
  IF q.qType # queryTypeSelect
  THEN <<PanicNode("UNION aceita apenas queries SELECT como operando")>>
  ELSE q.ctes \o buildSelectItems(q, FALSE)

\* An operand written without its parentheses.
renderSetOperandBare(q, parts) ==
  IF q.qType # queryTypeSelect THEN <<>>
  ELSE writeCTEs(q, SubSeq(parts, 1, Len(q.ctes)))
         \o buildSelect(q, FALSE, SubSeq(parts, Len(q.ctes) + 1, Len(parts)))

renderSetOperand(q, parts) ==
  IF q.qType # queryTypeSelect THEN <<>>
  ELSE Paren(writeCTEs(q, SubSeq(parts, 1, Len(q.ctes)))
               \o buildSelect(q, FALSE, SubSeq(parts, Len(q.ctes) + 1, Len(parts))))

buildSetSelectItems(h, q) ==
  buildSelectItems(q, FALSE)
    \o Concat([i \in DOMAIN q.unions |-> renderSetOperandItems(h[q.unions[i].q])])
    \o q.orderBy

buildSetSelect(h, q, parts) ==
  LET n == Len(q.unions)
      g == Cut(parts, <<Len(buildSelectItems(q, FALSE))>>
                        \o [i \in 1..n |-> Len(renderSetOperandItems(h[q.unions[i].q]))]
                        \o <<Len(q.orderBy)>>)
  IN buildSelect(q, FALSE, g[1])
       \o Concat([i \in 1..n |->
                    SP \o (IF q.unions[i].b THEN Tok("UNION ALL") ELSE Tok("UNION")) \o SP
                      \o renderSetOperand(h[q.unions[i].q], g[i + 1])])
       \o appendOrdering(q, g[n + 2])
       \o appendPagination(q.setLimit, q.setOffset)

writeOnConflictItems(dialect, q) ==
  IF Len(q.onConflictSet) = 0 /\ ~q.onConflictDoNothing THEN <<>>
  ELSE IF dialect = dialectMySQL THEN q.onConflictSet
  ELSE IF q.onConflictDoNothing THEN <<>>
  ELSE q.onConflictSet

\* parts: the fragments of the SET clauses of the conflict handler.
writeOnConflict(dialect, q, parts) ==
  LET target == IF Len(q.onConflictTarget) > 0
                THEN SP \o Paren(JoinWords(q.onConflictTarget)) ELSE <<>>
  IN IF Len(q.onConflictSet) = 0 /\ ~q.onConflictDoNothing THEN <<>>
     ELSE IF dialect = dialectMySQL
     THEN IF Len(q.onConflictSet) = 0 THEN <<>>
          ELSE SP \o Tok("ON DUPLICATE KEY UPDATE") \o SP \o StringsJoin(parts, Comma)
     ELSE IF q.onConflictDoNothing
     THEN SP \o Tok("ON CONFLICT") \o target \o SP \o Tok("DO NOTHING")
     ELSE SP \o Tok("ON CONFLICT") \o target \o SP \o Tok("DO UPDATE SET") \o SP
            \o StringsJoin(parts, Comma)

\* parts: the fragments of q.returning.
writeReturning(q, parts) ==
  IF Len(q.returning) = 0 THEN <<>>
  ELSE SP \o Tok("RETURNING") \o SP \o StringsJoin(parts, Comma)

buildInsertItems(dialect, q) ==
  <<q.insertTable>> \o Concat(q.insertValues) \o writeOnConflictItems(dialect, q)
    \o q.returning

buildInsert(dialect, q, parts) ==
  LET n == Len(q.insertValues)
      g == Cut(parts, <<1>> \o [i \in 1..n |-> Len(q.insertValues[i])]
                        \o <<Len(writeOnConflictItems(dialect, q)), Len(q.returning)>>)
  IN Tok("INSERT INTO") \o SP \o g[1][1]
       \o (IF Len(q.insertCols) > 0 THEN SP \o Paren(JoinWords(q.insertCols)) ELSE <<>>)
       \o (IF n > 0
           THEN SP \o Tok("VALUES") \o SP
                  \o StringsJoin([i \in 1..n |-> Paren(StringsJoin(g[i + 1], Comma))], Comma)
           ELSE <<>>)
       \o writeOnConflict(dialect, q, g[n + 2])
       \o writeReturning(q, g[n + 3])

\* buildUpdate with the check for SET clauses left out.
buildUpdateItemsUnchecked(q) ==
  <<q.updateTable>> \o q.setClauses \o <<q.from>> \o q.joins \o <<q.where>>
    \o q.returning

buildUpdateItems(q) ==
  IF Len(q.setClauses) = 0
  THEN <<q.updateTable, PanicNode("UPDATE requires at least one SET clause")>>
  ELSE <<q.updateTable>> \o q.setClauses \o <<q.from>> \o q.joins \o <<q.where>>
         \o q.returning

buildUpdate(q, parts) ==
  LET g == Cut(parts, <<1, Len(q.setClauses), 1, Len(q.joins), 1, Len(q.returning)>>)
  IN IF Len(q.setClauses) = 0 THEN Tok("UPDATE") \o SP \o parts[1]
     ELSE Tok("UPDATE") \o SP \o g[1][1] \o SP \o Tok("SET") \o SP
            \o StringsJoin(g[2], Comma)
            \o (IF q.from.k # "nil" THEN SP \o Tok("FROM") \o SP \o g[3][1] ELSE <<>>)
            \o writeJoins(g[4])
            \o buildPredicates("WHERE", q.where, g[5][1])
            \o writeReturning(q, g[6])

buildDeleteItems(q) == <<q.deleteTable, q.where>> \o q.returning

buildDelete(q, parts) ==
  Tok("DELETE FROM") \o SP \o parts[1]
    \o buildPredicates("WHERE", q.where, parts[2])
    \o writeReturning(q, SubSeq(parts, 3, Len(parts)))

\* The switch of render on the statement kind: what it builds ...
renderItems(h, dialect, q) ==
  CASE q.qType = queryTypeSelect ->
         IF Len(q.unions) > 0 THEN buildSetSelectItems(h, q) ELSE buildSelectItems(q, TRUE)
    [] q.qType = queryTypeInsert -> buildInsertItems(dialect, q)
    [] q.qType = queryTypeUpdate -> buildUpdateItems(q)
    [] q.qType = queryTypeDelete -> buildDeleteItems(q)
    [] OTHER -> <<PanicNode("query type not set")>>

\* ... and what it writes.
renderText(h, dialect, q, parts) ==
  CASE q.qType = queryTypeSelect ->
         IF Len(q.unions) > 0 THEN buildSetSelect(h, q, parts) ELSE buildSelect(q, TRUE, parts)
    [] q.qType = queryTypeInsert -> buildInsert(dialect, q, parts)
    [] q.qType = queryTypeUpdate -> buildUpdate(q, parts)
    [] q.qType = queryTypeDelete -> buildDelete(q, parts)
    [] OTHER -> <<>>

render(h, ctx, id) ==
  LET q == h[id]
      entered == Log(ctx, "enter", id, 0)
      raw == [entered EXCEPT !.args = @ \o q.rawArgs]
      n == Len(q.ctes)
      fmt(p) ==
        IF p.ctx.panic # "" THEN R(p.ctx, <<>>)
        ELSE [ctx |-> Log(p.ctx, "exit", id, 0),
              sql |-> writeCTEs(q, SubSeq(p.parts, 1, n))
                        \o renderText(h, ctx.dialect, q, SubSeq(p.parts, n + 1, Len(p.parts)))]
  IN CASE ctx.panic # "" -> R(ctx, <<>>)
       [] q.qType = queryTypeRaw ->
            R(Log(Log(raw, "rawq", id, Len(q.rawArgs)), "exit", id, 0),
              RawText(q.rawSQL, [i \in 1..Len(q.rawArgs) |-> Len(entered.args) + i]))
       [] OTHER -> fmt(buildAll(h, entered, q.ctes \o renderItems(h, ctx.dialect, q)))

\* Build that returns the rendered text as it is, spaces at the ends included.
BuildUntrimmed(h, dd, id) ==
  LET dialect == IF h[id].dialect = NilDialect THEN dd ELSE h[id].dialect
      fmt(r) ==
        IF r.ctx.panic # ""
        THEN [q |-> id, dialect |-> dialect, panic |-> r.ctx.panic, sql |-> <<>>,
              args |-> <<>>, ctx |-> r.ctx]
        ELSE [q |-> id, dialect |-> dialect, panic |-> "", sql |-> r.sql,
              args |-> r.ctx.args, ctx |-> r.ctx]
  IN fmt(render(h, newBuildContext(dialect), id))

\* Query.Build: what the call returns, and the context as the call leaves it.
\* A panic returns neither SQL nor arguments.
Build(h, dd, id) ==
  LET dialect == IF h[id].dialect = NilDialect THEN dd ELSE h[id].dialect
      fmt(r) ==
        IF r.ctx.panic # ""
        THEN [q |-> id, dialect |-> dialect, panic |-> r.ctx.panic, sql |-> <<>>,
              args |-> <<>>, ctx |-> r.ctx]
        ELSE [q |-> id, dialect |-> dialect, panic |-> "", sql |-> TrimSpace(r.sql),
              args |-> r.ctx.args, ctx |-> r.ctx]
  IN fmt(render(h, newBuildContext(dialect), id))

(***************************************************************************)
(* The accumulator calls, as functions from the Query to the Query after   *)
(* the call.                                                               *)
(***************************************************************************)
QueryWithDialect(q, d) == [q EXCEPT !.dialect = d]

QuerySelect(q, columns) ==
  [q EXCEPT !.qType = queryTypeSelect, !.selectColumns = @ \o toSQLExpressions(columns)]

QueryInsertInto(q, table, columns) ==
  [q EXCEPT !.qType = queryTypeInsert, !.insertTable = toTableExpression(table),
            !.insertCols = @ \o columns]

QueryValues(q, values) == [q EXCEPT !.insertValues = Append(@, toValueExpressions(values))]

QueryOnConflictDoNothing(q, targetColumns) ==
  [q EXCEPT !.onConflictTarget = targetColumns, !.onConflictDoNothing = TRUE]

QueryOnConflictDoUpdate(q, targetColumns, setClauses) ==
  [q EXCEPT !.onConflictTarget = targetColumns, !.onConflictSet = setClauses,
            !.onConflictDoNothing = FALSE]

QueryUpdate(q, table) ==
  [q EXCEPT !.qType = queryTypeUpdate, !.updateTable = toTableExpression(table)]

QueryDeleteFrom(q, table) ==
  [q EXCEPT !.qType = queryTypeDelete, !.deleteTable = toTableExpression(table)]

QuerySet(q, clauses) == [q EXCEPT !.setClauses = @ \o clauses]

QueryFrom(q, table) == [q EXCEPT !.from = toTableExpression(table)]

Queryjoin(q, kind, table, on) ==
  [q EXCEPT !.joins = Append(@, joinClause(kind, toTableExpression(table),
                                           IF Len(on) > 0 THEN And(on) ELSE NilNode))]

QueryWhere(q, predicates) ==
  IF Len(predicates) = 0 THEN q
  ELSE IF q.where.k = "nil" THEN [q EXCEPT !.where = And(predicates)]
  ELSE [q EXCEPT !.where = And(<<q.where, And(predicates)>>)]

QueryHaving(q, predicates) ==
  IF Len(predicates) = 0 THEN q
  ELSE IF q.having.k = "nil" THEN [q EXCEPT !.having = And(predicates)]
  ELSE [q EXCEPT !.having = And(<<q.having, And(predicates)>>)]

QueryGroupBy(q, expressions) == [q EXCEPT !.groupBy = @ \o toSQLExpressions(expressions)]

QueryOrderBy(q, expressions) == [q EXCEPT !.orderBy = @ \o toSQLExpressions(expressions)]

\* A Limit that always binds to the base SELECT.
QueryLimitBaseOnly(q, limit) == [q EXCEPT !.limit = limit]

QueryLimit(q, limit) ==
  IF Len(q.unions) > 0 THEN [q EXCEPT !.setLimit = limit] ELSE [q EXCEPT !.limit = limit]

QueryOffset(q, offset) ==
  IF Len(q.unions) > 0 THEN [q EXCEPT !.setOffset = offset] ELSE [q EXCEPT !.offset = offset]

QueryWith(q, name, subquery, columns) ==
  [q EXCEPT !.ctes = Append(@, cte(name, subquery, columns, FALSE))]

QueryWithRecursive(q, name, subquery, columns) ==
  [q EXCEPT !.ctes = Append(@, cte(name, subquery, columns, TRUE))]

RECURSIVE unionLoop(_, _, _, _)
unionLoop(h, q, all, queries) ==
  IF queries = <<>> THEN [q |-> q, panic |-> ""]
  ELSE LET other == Head(queries)
       IN IF other = 0 THEN [q |-> q, panic |-> "UNION requer queries nao nulas"]
          ELSE IF h[other].qType # queryTypeSelect
          THEN [q |-> q, panic |-> "UNION aceita apenas queries SELECT como operando"]
          ELSE unionLoop(h, [q EXCEPT !.unions = Append(@, unionClause(other, all))],
                         all, Tail(queries))

\* Query.Returning with the kind check left out.
QueryReturningAnyKind(q, expressions) ==
  [q |-> [q EXCEPT !.returning = @ \o toSQLExpressions(expressions)], panic |-> ""]

\* Query.Returning: the Query as the call leaves it, and the panic that ended it.
QueryReturning(q, expressions) ==
  CASE q.qType = queryTypeSelect ->
         [q |-> q, panic |-> "RETURNING is not supported on SELECT queries"]
    [] q.qType \in {queryTypeRaw, ""} ->
         [q |-> q, panic |-> "RETURNING requer uma query INSERT, UPDATE ou DELETE"]
    [] OTHER ->
         [q |-> [q EXCEPT !.returning = @ \o toSQLExpressions(expressions)], panic |-> ""]

\* The ordering that an entry of ORDER BY stands for in the fluent keyset
\* calls: a string that ends in a direction is the column before it, wrapped
\* by that direction.
keysetOrdering(e) ==
  CASE e.k = "raw" /\ e.s = "id DESC" -> Desc(Col("id"))
    [] e.k = "raw" /\ e.s = "created_at ASC" -> Asc(Col("created_at"))
    [] OTHER -> e

\* Query.KeysetAfter and Query.KeysetBefore: the keyset predicate over the
\* ORDER BY of the Query, added to its WHERE.
QueryKeyset(q, cursorValues, forward, name) ==
  LET ordering == [i \in DOMAIN q.orderBy |-> keysetOrdering(q.orderBy[i])]
      p == buildKeysetPredicate(ordering, cursorValues, forward)
  IN IF Len(q.orderBy) = 0
     THEN [q |-> q, panic |-> name \o " requer ORDER BY configurado"]
     ELSE IF p.k = "panic" THEN [q |-> q, panic |-> p.s]
     ELSE [q |-> QueryWhere(q, <<p>>), panic |-> ""]

QueryKeysetAfter(q, cursorValues) == QueryKeyset(q, cursorValues, TRUE, "KeysetAfter")

QueryKeysetBefore(q, cursorValues) == QueryKeyset(q, cursorValues, FALSE, "KeysetBefore")

\* Query.union: the Query as the call leaves it, and the panic that ended it.
Queryunion(h, q, all, queries) ==
  IF q.qType # queryTypeSelect
  THEN [q |-> q,
        panic |-> IF q.qType = "" THEN "UNION requer uma consulta SELECT inicial"
                  ELSE "UNION pode ser usado apenas em consultas SELECT"]
  ELSE unionLoop(h, q, all, queries)

(***************************************************************************)
(* The state machine: a caller holding Query objects makes accumulator     *)
(* calls and Build calls.                                                  *)
(***************************************************************************)
NoOut ==
  [q |-> 0, dialect |-> NilDialect, panic |-> "", sql |-> <<>>, args |-> <<>>,
   ctx |-> newBuildContext(NilDialect)]

NoPage == [limit |-> Nil, offset |-> Nil, setLimit |-> Nil, setOffset |-> Nil]

NoCall ==
  [op |-> "", id |-> 0, before |-> ZeroQuery, all |-> FALSE, expressions |-> <<>>,
   queries |-> <<>>]

NoOrigin == [default |-> NilDialect, overridden |-> FALSE]

Threads == 1..MaxThreads

NoRet == [panic |-> "", sql |-> <<>>, args |-> <<>>]

Idle ==
  [pc |-> "idle", q |-> 0, ctx |-> 0, todo |-> <<>>, parts |-> <<>>, ret |-> NoRet,
   met |-> FALSE, op |-> "", setting |-> "", arg |-> "", val |-> "", seen |-> "",
   ctxErr |-> "", err |-> ""]

\* The two package-wide settings, each with its lock.
Settings == {"defaultDialect", "defaultTextSearchConfig"}

Unlocked == [writer |-> 0, readers |-> {}]

\* A call of the single caller of the sequential scenarios.
Sequential == UNCHANGED <<threads, contexts, defaultTextSearchConfig, locks, settled>>

\* A call on the Query id that leaves it as nq.
Touch(id, nq) ==
  /\ Sequential
  /\ fuel > 0
  /\ heap[id].alive
  /\ heap' = [heap EXCEPT ![id] = nq]
  /\ fuel' = fuel - 1
  /\ out' = NoOut

\* An accumulator call on the Query id that leaves it as nq.
Mutate(id, nq) ==
  /\ Touch(id, nq)
  /\ lastCall' = NoCall
  /\ UNCHANGED origin

Established(id, kind) ==
  firstKind' = [firstKind EXCEPT ![id] = IF @ = "" THEN kind ELSE @]

SetDefaultDialect(d) ==
  /\ Sequential
  /\ fuel > 0
  /\ defaultDialect' = d
  /\ fuel' = fuel - 1
  /\ UNCHANGED <<heap, out, err, firstKind, pageCalls, lastCall, origin>>

WithDialect(id, d) ==
  /\ Touch(id, QueryWithDialect(heap[id], d))
  /\ lastCall' = NoCall
  /\ origin' = [origin EXCEPT ![id].overridden = TRUE]
  /\ err' = ""
  /\ UNCHANGED <<defaultDialect, firstKind, pageCalls>>

Select(id, columns) ==
  /\ Mutate(id, QuerySelect(heap[id], columns))
  /\ Established(id, queryTypeSelect)
  /\ err' = ""
  /\ UNCHANGED <<defaultDialect, pageCalls>>

InsertInto(id, table, columns) ==
  /\ Mutate(id, QueryInsertInto(heap[id], table, columns))
  /\ Established(id, queryTypeInsert)
  /\ err' = ""
  /\ UNCHANGED <<defaultDialect, pageCalls>>

Update(id, table) ==
  /\ Mutate(id, QueryUpdate(heap[id], table))
  /\ Established(id, queryTypeUpdate)
  /\ err' = ""
  /\ UNCHANGED <<defaultDialect, pageCalls>>

DeleteFrom(id, table) ==
  /\ Mutate(id, QueryDeleteFrom(heap[id], table))
  /\ Established(id, queryTypeDelete)
  /\ err' = ""
  /\ UNCHANGED <<defaultDialect, pageCalls>>

\* An accumulator call that establishes no kind and cannot panic.
Accumulate(id, nq) ==
  /\ Mutate(id, nq)
  /\ err' = ""
  /\ UNCHANGED <<defaultDialect, firstKind, pageCalls>>

Values(id, values) == Accumulate(id, QueryValues(heap[id], values))

OnConflictDoNothing(id, targetColumns) ==
  Accumulate(id, QueryOnConflictDoNothing(heap[id], targetColumns))

OnConflictDoUpdate(id, targetColumns, setClauses) ==
  Accumulate(id, QueryOnConflictDoUpdate(heap[id], targetColumns, setClauses))

SetClauses(id, clauses) == Accumulate(id, QuerySet(heap[id], clauses))

From(id, table) == Accumulate(id, QueryFrom(heap[id], table))

Join(id, table, on) == Accumulate(id, Queryjoin(heap[id], "JOIN", table, on))

LeftJoin(id, table, on) == Accumulate(id, Queryjoin(heap[id], "LEFT JOIN", table, on))

Where(id, predicates) == Accumulate(id, QueryWhere(heap[id], predicates))

Having(id, predicates) == Accumulate(id, QueryHaving(heap[id], predicates))

GroupBy(id, expressions) == Accumulate(id, QueryGroupBy(heap[id], expressions))

OrderBy(id, expressions) == Accumulate(id, QueryOrderBy(heap[id], expressions))

With(id, name, subquery) == Accumulate(id, QueryWith(heap[id], name, subquery, <<>>))

WithRecursive(id, name, subquery) ==
  Accumulate(id, QueryWithRecursive(heap[id], name, subquery, <<>>))

Limit(id, limit) ==
  /\ Mutate(id, QueryLimit(heap[id], limit))
  /\ err' = ""
  /\ pageCalls' = [pageCalls EXCEPT ![id] =
                     IF Len(heap[id].unions) = 0 THEN [@ EXCEPT !.limit = limit]
                     ELSE [@ EXCEPT !.setLimit = limit]]
  /\ UNCHANGED <<defaultDialect, firstKind>>

Offset(id, offset) ==
  /\ Mutate(id, QueryOffset(heap[id], offset))
  /\ err' = ""
  /\ pageCalls' = [pageCalls EXCEPT ![id] =
                     IF Len(heap[id].unions) = 0 THEN [@ EXCEPT !.offset = offset]
                     ELSE [@ EXCEPT !.setOffset = offset]]
  /\ UNCHANGED <<defaultDialect, firstKind>>

Union(id, all, queries) ==
  LET r == Queryunion(heap, heap[id], all, queries)
  IN /\ Touch(id, r.q)
     /\ err' = r.panic
     /\ lastCall' = [NoCall EXCEPT !.op = "Union", !.id = id, !.before = heap[id],
                                    !.all = all, !.queries = queries]
     /\ UNCHANGED <<defaultDialect, firstKind, pageCalls, origin>>

Returning(id, expressions) ==
  LET r == QueryReturning(heap[id], expressions)
  IN /\ Touch(id, r.q)
     /\ err' = r.panic
     /\ lastCall' = [NoCall EXCEPT !.op = "Returning", !.id = id, !.before = heap[id],
                                    !.expressions = expressions]
     /\ UNCHANGED <<defaultDialect, firstKind, pageCalls, origin>>

\* New() and RawQuery(sql, args...): the Query id comes into being.
Create(id, q) ==
  /\ Sequential
  /\ fuel > 0
  /\ ~heap[id].alive
  /\ heap' = [heap EXCEPT ![id] = q]
  /\ origin' = [origin EXCEPT ![id] = [default |-> defaultDialect, overridden |-> FALSE]]
  /\ fuel' = fuel - 1
  /\ UNCHANGED <<defaultDialect, out, err, firstKind, pageCalls, lastCall>>

NewQuery(id) == Create(id, New(defaultDialect))

NewRawQuery(id, sql, args) == Create(id, RawQuery(sql, args))

\* Query.Build on the Query id: the caller keeps what it returns.
BuildQuery(id) ==
  /\ Sequential
  /\ heap[id].alive
  /\ out' = Build(heap, defaultDialect, id)
  /\ UNCHANGED <<heap, defaultDialect, err, fuel, firstKind, pageCalls, lastCall, origin>>

(***************************************************************************)
(* Build calls of several goroutines.  A call goes through Query.Build and *)
(* Query.render in steps: it allocates its context, enters the render,     *)
(* builds the fragments of the statement one after the other and returns.  *)
(***************************************************************************)
\* One context for the Build calls of all goroutines.
allocContextShared(t) == 1

\* ctx := &buildContext{dialect: dialect}: the context of the call of t.
allocContext(t) == t

Busy(t) == threads[t].pc \notin {"idle", "done"}

Goroutine ==
  UNCHANGED <<heap, defaultDialect, out, err, firstKind, pageCalls, lastCall, origin,
              defaultTextSearchConfig, locks, settled>>

BuildBegin(t, id) ==
  LET dialect == IF heap[id].dialect = NilDialect THEN defaultDialect ELSE heap[id].dialect
      slot == allocContext(t)
      met == \E u \in Threads \ {t} : Busy(u)
  IN /\ fuel > 0
     /\ ~Busy(t)
     /\ heap[id].alive
     /\ contexts' = [contexts EXCEPT ![slot] = newBuildContext(dialect)]
     /\ threads' = [u \in Threads |->
                       IF u = t THEN [Idle EXCEPT !.pc = "enter", !.q = id, !.ctx = slot,
                                                  !.met = met]
                       ELSE IF Busy(u) THEN [threads[u] EXCEPT !.met = TRUE]
                       ELSE threads[u]]
     /\ fuel' = fuel - 1
     /\ Goroutine

BuildEnter(t) ==
  LET th == threads[t]
      q == heap[th.q]
      ctx == contexts[th.ctx]
      entered == Log(ctx, "enter", th.q, 0)
      raw == [entered EXCEPT !.args = @ \o q.rawArgs]
  IN /\ th.pc = "enter"
     /\ IF q.qType = queryTypeRaw
        THEN /\ contexts' = [contexts EXCEPT ![th.ctx] =
                               Log(Log(raw, "rawq", th.q, Len(q.rawArgs)), "exit", th.q, 0)]
             /\ threads' = [threads EXCEPT ![t].pc = "return",
                              ![t].parts = <<RawText(q.rawSQL,
                                               [i \in 1..Len(q.rawArgs) |-> Len(entered.args) + i])>>]
        ELSE /\ contexts' = [contexts EXCEPT ![th.ctx] = entered]
             /\ threads' = [threads EXCEPT ![t].pc = "render",
                              ![t].todo = q.ctes \o renderItems(heap, ctx.dialect, q)]
     /\ UNCHANGED fuel
     /\ Goroutine

\* BuildStep that gives up when the context of the call is done.
BuildStepInterrupted(t) ==
  LET th == threads[t]
      r == build(heap, contexts[th.ctx], Head(th.todo))
  IN /\ th.pc = "render"
     /\ th.todo # <<>>
     /\ contexts' = [contexts EXCEPT ![th.ctx] = r.ctx]
     /\ threads' = IF th.ctxErr # ""
                   THEN [threads EXCEPT ![t].pc = "done", ![t].err = th.ctxErr]
                   ELSE IF r.ctx.panic # "" THEN [threads EXCEPT ![t].pc = "return"]
                   ELSE [threads EXCEPT ![t].todo = Tail(@), ![t].parts = Append(@, r.sql)]
     /\ UNCHANGED fuel
     /\ Goroutine

BuildStep(t) ==
  LET th == threads[t]
      r == build(heap, contexts[th.ctx], Head(th.todo))
  IN /\ th.pc = "render"
     /\ th.todo # <<>>
     /\ contexts' = [contexts EXCEPT ![th.ctx] = r.ctx]
     /\ threads' = IF r.ctx.panic # "" THEN [threads EXCEPT ![t].pc = "return"]
                   ELSE [threads EXCEPT ![t].todo = Tail(@), ![t].parts = Append(@, r.sql)]
     /\ UNCHANGED fuel
     /\ Goroutine

BuildReturn(t) ==
  LET th == threads[t]
      q == heap[th.q]
      ctx == contexts[th.ctx]
      n == Len(q.ctes)
      sql == IF q.qType = queryTypeRaw THEN th.parts[1]
             ELSE writeCTEs(q, SubSeq(th.parts, 1, n))
                    \o renderText(heap, ctx.dialect, q, SubSeq(th.parts, n + 1, Len(th.parts)))
  IN /\ th.pc = "return" \/ (th.pc = "render" /\ th.todo = <<>>)
     /\ threads' = [threads EXCEPT ![t].pc = "done",
                      ![t].ret = IF ctx.panic # ""
                                 THEN [panic |-> ctx.panic, sql |-> <<>>, args |-> <<>>]
                                 ELSE [panic |-> "", sql |-> TrimSpace(sql), args |-> ctx.args]]
     /\ UNCHANGED <<contexts, fuel>>
     /\ Goroutine

\* The cancellation context that goroutine t passes to BuildContext gets
\* cancelled or passes its deadline, at any moment.
ContextDone(t, reason) ==
  /\ threads[t].ctxErr = ""
  /\ threads' = [threads EXCEPT ![t].ctxErr = reason]
  /\ UNCHANGED <<contexts, fuel>>
  /\ Goroutine

\* Query.BuildContext up to the render: the call reads ctx.Err() once and
\* returns it when the context is done, and otherwise goes on as Build does.
BuildContextBegin(t, id) ==
  LET dialect == IF heap[id].dialect = NilDialect THEN defaultDialect ELSE heap[id].dialect
      slot == allocContext(t)
      seen == threads[t].ctxErr
      call == [Idle EXCEPT !.q = id, !.ctxErr = seen, !.seen = seen, !.op = "BuildContext"]
  IN /\ fuel > 0
     /\ ~Busy(t)
     /\ heap[id].alive
     /\ IF seen # ""
        THEN /\ threads' = [threads EXCEPT ![t] = [call EXCEPT !.pc = "done", !.err = seen]]
             /\ UNCHANGED contexts
        ELSE /\ threads' = [threads EXCEPT ![t] = [call EXCEPT !.pc = "enter", !.ctx = slot]]
             /\ contexts' = [contexts EXCEPT ![slot] = newBuildContext(dialect)]
     /\ fuel' = fuel - 1
     /\ Goroutine

(***************************************************************************)
(* Setter and getter calls of several goroutines on the two package-wide   *)
(* settings.  SetDefaultDialect and SetDefaultTextSearchConfig take the    *)
(* lock of their setting, write it and release the lock on return;         *)
(* DefaultDialect and DefaultTextSearchConfig take the read lock, read and *)
(* release it on return.  Lock waits until no writer and no reader is      *)
(* inside, RLock until no writer is inside.                                *)
(***************************************************************************)
\* A Lock that does not wait for the readers inside.
canLockOverReaders(l) == l.writer = 0

\* defaultDialectMu.Lock() / defaultTextSearchConfigMu.Lock() may proceed.
canLock(l) == l.writer = 0 /\ l.readers = {}

\* defaultDialectMu.RLock() / defaultTextSearchConfigMu.RLock() may proceed.
canRLock(l) == l.writer = 0

SettingValue(s) == IF s = "defaultDialect" THEN defaultDialect ELSE defaultTextSearchConfig

Locking ==
  UNCHANGED <<heap, out, err, firstKind, pageCalls, lastCall, origin, contexts>>

SetterBegin(t, s, v) ==
  /\ fuel > 0
  /\ ~Busy(t)
  /\ threads' = [threads EXCEPT ![t] = [Idle EXCEPT !.pc = "lock", !.op = "set",
                                                    !.setting = s, !.arg = v]]
  /\ fuel' = fuel - 1
  /\ UNCHANGED <<defaultDialect, defaultTextSearchConfig, locks, settled>>
  /\ Locking

SetterLock(t) ==
  LET s == threads[t].setting
  IN /\ threads[t].pc = "lock"
     /\ canLock(locks[s])
     /\ locks' = [locks EXCEPT ![s].writer = t]
     /\ threads' = [threads EXCEPT ![t].pc = "write"]
     /\ UNCHANGED <<defaultDialect, defaultTextSearchConfig, settled, fuel>>
     /\ Locking

SetterWrite(t) ==
  LET s == threads[t].setting
  IN /\ threads[t].pc = "write"
     /\ IF s = "defaultDialect"
        THEN defaultDialect' = threads[t].arg /\ UNCHANGED defaultTextSearchConfig
        ELSE defaultTextSearchConfig' = threads[t].arg /\ UNCHANGED defaultDialect
     /\ threads' = [threads EXCEPT ![t].pc = "unlock"]
     /\ UNCHANGED <<locks, settled, fuel>>
     /\ Locking

SetterUnlock(t) ==
  LET s == threads[t].setting
  IN /\ threads[t].pc = "unlock"
     /\ locks' = [locks EXCEPT ![s].writer = 0]
     /\ settled' = [settled EXCEPT ![s] = threads[t].arg]
     /\ threads' = [threads EXCEPT ![t].pc = "done"]
     /\ UNCHANGED <<defaultDialect, defaultTextSearchConfig, fuel>>
     /\ Locking

GetterBegin(t, s) ==
  /\ fuel > 0
  /\ ~Busy(t)
  /\ threads' = [threads EXCEPT ![t] = [Idle EXCEPT !.pc = "rlock", !.op = "get",
                                                    !.setting = s]]
  /\ fuel' = fuel - 1
  /\ UNCHANGED <<defaultDialect, defaultTextSearchConfig, locks, settled>>
  /\ Locking

GetterRLock(t) ==
  LET s == threads[t].setting
  IN /\ threads[t].pc = "rlock"
     /\ canRLock(locks[s])
     /\ locks' = [locks EXCEPT ![s].readers = @ \cup {t}]
     /\ threads' = [threads EXCEPT ![t].pc = "read", ![t].seen = settled[s]]
     /\ UNCHANGED <<defaultDialect, defaultTextSearchConfig, settled, fuel>>
     /\ Locking

GetterRead(t) ==
  /\ threads[t].pc = "read"
  /\ threads' = [threads EXCEPT ![t].pc = "runlock",
                                 ![t].val = SettingValue(threads[t].setting)]
  /\ UNCHANGED <<defaultDialect, defaultTextSearchConfig, locks, settled, fuel>>
  /\ Locking

GetterRUnlock(t) ==
  LET s == threads[t].setting
  IN /\ threads[t].pc = "runlock"
     /\ locks' = [locks EXCEPT ![s].readers = @ \ {t}]
     /\ threads' = [threads EXCEPT ![t].pc = "done"]
     /\ UNCHANGED <<defaultDialect, defaultTextSearchConfig, settled, fuel>>
     /\ Locking

(***************************************************************************)
(* Inputs of the expression scenarios.                                     *)
(***************************************************************************)
MaxList == 2

SeqsUpTo(S, n) == UNION {[1..k -> S] : k \in 0..n}

\* Column.In: the predicate it returns, or the panic that ends the call.
ColumnIn(c, values) ==
  IF Len(values) = 0 THEN PanicNode("IN list cannot be empty")
  ELSE IF Len(values) = 1 /\ values[1].k = "qptr"
  THEN comparison(c, "IN", subqueryExpr(values[1].q))
  ELSE inPredicate(c, toValueExpressions(values))

ColA == Col("a")

RawBound == Raw("x + ?", <<"r1">>)

Operands == {Lit("v1"), Lit("v2"), Col("b"), Raw("now()", <<>>), RawBound}

ListItems == {Lit("v1"), Lit("v2"), RawBound}

AtomPreds ==
  {Eq(ColA, x) : x \in Operands}
    \cup {Gt(ColA, Lit("v1")), Like(ColA, Lit("v2")), IsNull(ColA),
          NotBetween(ColA, Lit("v1"), Lit("v2")), Raw("a = ?", <<"r1">>), Raw("", <<>>)}
    \cup {ColumnIn(ColA, l) : l \in SeqsUpTo(ListItems, MaxList) \ {<<>>}}
    \cup {Between(ColA, x, y) : x \in ListItems, y \in ListItems}

CompoundKids1 ==
  {Eq(ColA, Lit("v1")), Eq(ColA, RawBound), ColumnIn(ColA, <<Lit("v1"), Lit("v2")>>),
   And(<<>>), Raw("", <<>>)}

Compounds1 ==
  {And(s) : s \in SeqsUpTo(CompoundKids1, MaxList)}
    \cup {Or(s) : s \in SeqsUpTo(CompoundKids1, MaxList)}

CompoundKids2 ==
  {Or(<<>>), And(<<And(<<>>)>>), Or(<<Eq(ColA, Lit("v1")), Eq(ColA, RawBound)>>),
   And(<<Between(ColA, Lit("v1"), Lit("v2"))>>), Gt(ColA, Lit("v1"))}

Compounds2 ==
  {And(s) : s \in SeqsUpTo(CompoundKids2, MaxList)}
    \cup {Or(s) : s \in SeqsUpTo(CompoundKids2, MaxList)}
    \cup {Not(p) : p \in CompoundKids2}

PredInputs == AtomPreds \cup Compounds1 \cup Compounds2

PredSmall ==
  {Eq(ColA, Lit("v1")), And(<<>>), Or(<<And(<<>>), Raw("", <<>>)>>),
   Or(<<Eq(ColA, Lit("v2")), And(<<>>)>>)}

FuncArgs == {Col("a"), Lit("v1"), Lit("v2")}

Frames == {"", "ROWS BETWEEN UNBOUNDED PRECEDING AND CURRENT ROW"}

WindowInputs ==
  {Over(Func("f", args), WindowSpec(p, o, fr)) :
     args \in {<<>>, <<Lit("v1")>>},
     p \in {<<>>, <<Col("b")>>, <<Lit("v2")>>},
     o \in {<<>>, <<Desc(Col("a"))>>, <<Lit("v3")>>},
     fr \in Frames}

SelInputs ==
  {Str("id"), Col("a"), ColAlias("a", "x"), Lit("v3")}
    \cup {Func("f", s) : s \in SeqsUpTo(FuncArgs, MaxList)}
    \cup {Func("g", <<Func("f", <<Lit("v1")>>), Lit("v2")>>)}
    \cup WindowInputs

SelSmall == {<<>>, <<Raw("id", <<>>)>>, <<Value("v3")>>}

(***************************************************************************)
(* SpecExpr: one Query, created under either dialect, takes one Select,    *)
(* Where and Having with expressions of every kind, and is built.          *)
(***************************************************************************)
ExprCalls == 4

InitBase ==
  /\ defaultDialect = dialectMySQL
  /\ out = NoOut
  /\ err = ""
  /\ lastCall = NoCall
  /\ origin = [q \in QIds |-> NoOrigin]
  /\ threads = [t \in Threads |-> Idle]
  /\ contexts = [t \in Threads |-> newBuildContext(NilDialect)]
  /\ defaultTextSearchConfig = "english"
  /\ locks = [s \in Settings |-> Unlocked]
  /\ settled = [s \in Settings |-> IF s = "defaultDialect" THEN dialectMySQL ELSE "english"]
  /\ firstKind = [q \in QIds |-> ""]
  /\ pageCalls = [q \in QIds |-> NoPage]

InitExpr ==
  /\ InitBase
  /\ \E d \in Dialects : heap = [q \in QIds |-> IF q = 1 THEN New(d) ELSE ZeroQuery]
  /\ fuel = ExprCalls

ExprSelect ==
  \E e \in SelInputs :
    /\ heap[1].qType = ""
    /\ IF heap[1].where.k = "nil" THEN TRUE ELSE heap[1].where.c[1] \in PredSmall
    /\ Select(1, <<e>>)

ExprSelectPlain ==
  \E e \in {Str("id"), Lit("v3")} : heap[1].qType = "" /\ Select(1, <<e>>)

ExprWhere ==
  \E p \in PredInputs :
    /\ heap[1].where.k = "nil"
    /\ heap[1].having.k = "nil"
    /\ IF p \in PredSmall THEN TRUE ELSE heap[1].selectColumns \in SelSmall
    /\ Where(1, <<p>>)

ExprWhereAgain ==
  \E p \in PredSmall :
    /\ IF heap[1].where.k = "nil" THEN FALSE ELSE heap[1].where.c[1] \in PredSmall
    /\ heap[1].having.k = "nil"
    /\ Where(1, <<p>>)

ExprHaving ==
  \E p \in PredSmall : heap[1].having.k = "nil" /\ Having(1, <<p>>)

ExprBuild == BuildQuery(1)

NextExpr ==
  \/ ExprSelect
  \/ ExprSelectPlain
  \/ ExprWhere
  \/ ExprWhereAgain
  \/ ExprHaving
  \/ ExprBuild

SpecExpr == InitExpr /\ [][NextExpr]_vars

(***************************************************************************)
(* What the properties read of a Build.                                    *)
(***************************************************************************)
\* The last Build returned without a panic.
Built == out.q # 0 /\ out.panic = ""

Iota(n) == [i \in 1..n |-> i]

RECURSIVE Flatten(_)
Flatten(ss) == IF ss = <<>> THEN <<>> ELSE Head(ss) \o Flatten(Tail(ss))

\* The positions of the args list that the tokens of a text bind, in the
\* order of the text.
BoundPositions(text) == Flatten([i \in DOMAIN text |-> text[i].a])

\* The strings of a text, every placeholder token written as "?".
Norm(text) == [i \in DOMAIN text |-> IF text[i].n > 0 THEN "?" ELSE text[i].s]

HasWord(text, w) == \E i \in DOMAIN text : text[i].n = 0 /\ text[i].s = w

\* The strings part occurs in the strings whole, contiguously.
Contains(whole, part) ==
  \E i \in 0..(Len(whole) - Len(part)) : SubSeq(whole, i + 1, i + Len(part)) = part

RECURSIVE Subnodes(_)
Subnodes(e) == {e} \cup UNION {Subnodes(e.c[i]) : i \in DOMAIN e.c}

RECURSIVE SumOver(_, _)
SumOver(f, S) ==
  IF S = {} THEN 0 ELSE LET x == CHOOSE y \in S : TRUE IN f[x] + SumOver(f, S \ {x})

\* The nodes of a list of expressions, each with its path, so that equal
\* nodes at different places count separately.
RECURSIVE Leaves(_, _)
Leaves(e, path) ==
  {<<path, e>>} \cup UNION {Leaves(e.c[i], Append(path, i)) : i \in DOMAIN e.c}

PlacedNodes(q) ==
  UNION {Leaves(q.selectColumns[i], <<1, i>>) : i \in DOMAIN q.selectColumns}
    \cup Leaves(q.where, <<2>>) \cup Leaves(q.having, <<3>>)

\* C1 (as the claim states it): after a Build, the tokens of the SQL text,
\* read left to right, bind args[1], args[2], ... in this order.
C1_ArgsFollowText == Built => BoundPositions(out.sql) = Iota(Len(out.args))

\* C3: in the trace of a Build every literal-value leaf is followed at once
\* by the one placeholder request made for it, which leaves one more
\* argument and one more placeholder; a raw fragment leaves as many more
\* arguments as it was given and no more placeholders; and the args list is
\* as long as the literal-value leaves and the raw arguments of the Query.
C3_OneArgPerValue ==
  Built =>
    LET tr == out.ctx.trace
        before(i) == IF i = 1 THEN [m |-> 0, p |-> 0] ELSE tr[i - 1]
        placed == PlacedNodes(heap[out.q])
        values == Cardinality({x \in placed : x[2].k = "val"})
        raws == SumOver([x \in placed |-> IF x[2].k = "raw" THEN Len(x[2].v) ELSE 0], placed)
    IN /\ \A i \in DOMAIN tr :
            /\ tr[i].ev = "val" =>
                 /\ tr[i].m = before(i).m /\ tr[i].p = before(i).p
                 /\ i < Len(tr) /\ tr[i + 1].ev = "ph"
            /\ tr[i].ev = "ph" =>
                 /\ i > 1 /\ tr[i - 1].ev = "val"
                 /\ tr[i].m = tr[i - 1].m + 1 /\ tr[i].p = tr[i - 1].p + 1
            /\ tr[i].ev = "raw" =>
                 /\ tr[i].m = before(i).m + tr[i].n /\ tr[i].p = before(i).p
            /\ tr[i].ev \in {"enter", "exit"} =>
                 /\ tr[i].m = before(i).m /\ tr[i].p = before(i).p
       /\ Len(out.args) = values + raws
       /\ Cardinality({i \in DOMAIN tr : tr[i].ev = "val"}) = values

\* C3's case: a Build that rendered two literal values and a raw fragment
\* with an argument of its own.
C3_Witness ==
  /\ Built
  /\ Cardinality({i \in DOMAIN out.ctx.trace : out.ctx.trace[i].ev = "val"}) >= 2
  /\ \E i \in DOMAIN out.ctx.trace : out.ctx.trace[i].ev = "raw" /\ out.ctx.trace[i].n = 1
  /\ Len(out.args) >= 3

\* The text a predicate renders to on its own, as strings.
TextOf(e) == Norm(build(heap, newBuildContext(dialectMySQL), e).sql)

Survivors(e) == SelectSeq([i \in DOMAIN e.c |-> TextOf(e.c[i])], LAMBDA t : t # <<>>)

RECURSIVE JoinStrings(_, _)
JoinStrings(parts, op) ==
  IF parts = <<>> THEN <<>>
  ELSE IF Len(parts) = 1 THEN parts[1]
  ELSE parts[1] \o <<" ", op, " ">> \o JoinStrings(Tail(parts), op)

\* The clause of a keyword in the SQL of the last Build, for a predicate.
ClauseAsClaimed(keyword, pred) ==
  IF pred.k = "nil" \/ TextOf(pred) = <<>> THEN ~HasWord(out.sql, keyword)
  ELSE Contains(Norm(out.sql), <<" ", keyword, " ">> \o TextOf(pred))

\* C9: a compound over no children, or over children that all render to
\* empty text, renders to empty text; any other compound renders to its
\* non-empty children's fragments joined by the operator inside one pair of
\* parentheses; and the SQL holds the WHERE (HAVING) keyword, followed by the
\* predicate's text, only when the predicate is present and its text is not
\* empty.
C9_EmptyPredicatesCollapse ==
  Built =>
    LET q == heap[out.q]
    IN /\ \A e \in Subnodes(q.where) \cup Subnodes(q.having) :
            e.k = "compound" =>
              TextOf(e) = IF Survivors(e) = <<>> THEN <<>>
                          ELSE <<"(">> \o JoinStrings(Survivors(e), e.s) \o <<")">>
       /\ ClauseAsClaimed("WHERE", q.where)
       /\ ClauseAsClaimed("HAVING", q.having)

\* C9's case: a WHERE with a compound that drops an empty child and keeps
\* another, beside a HAVING whose predicate renders to empty text.
C9_Witness ==
  /\ Built
  /\ HasWord(out.sql, "WHERE")
  /\ \E e \in Subnodes(heap[out.q].where) :
       /\ e.k = "compound"
       /\ \E i, j \in DOMAIN e.c : TextOf(e.c[i]) = <<>> /\ TextOf(e.c[j]) # <<>>
  /\ heap[out.q].having.k = "compound"
  /\ ~HasWord(out.sql, "HAVING")

(***************************************************************************)
(* SpecNest: an outer SELECT (Query 1, under either dialect) that refers   *)
(* to the Queries 2 and 3 as derived tables, join targets, subquery        *)
(* expressions, IN-subqueries, CTEs and union partners; Query 2 may draw   *)
(* from Query 3.                                                           *)
(***************************************************************************)
NestCalls == 8

MaxJoins == 1

InitNest ==
  /\ InitBase
  /\ \E d \in Dialects : heap = [q \in QIds |-> IF q = 1 THEN New(d) ELSE New(dialectMySQL)]
  /\ fuel = NestCalls

IsSelect(id) == heap[id].qType = queryTypeSelect

Fresh(id) == heap[id].qType = ""

NestSelect == \E id \in {1, 2, 3} : Fresh(id) /\ Select(id, <<Lit("v" \o ToString(id))>>)

NestFromTable == IsSelect(2) /\ heap[2].from.k = "nil" /\ From(2, Str("t"))

NestFromQuery ==
  \E id \in {1, 2}, j \in {2, 3} :
    /\ j > id /\ IsSelect(id) /\ IsSelect(j)
    /\ heap[id].from.k = "nil"
    /\ From(id, QPtr(j))

NestJoin ==
  \E j \in {2, 3} :
    /\ IsSelect(1) /\ IsSelect(j)
    /\ Len(heap[1].joins) < MaxJoins
    /\ Join(1, QPtr(j), <<Eq(ColA, Lit("v4"))>>)

NestWhere ==
  \E id \in {1, 2, 3} :
    IsSelect(id) /\ heap[id].where.k = "nil" /\ Where(id, <<Eq(ColA, Lit("v5"))>>)

NestWhereQuery ==
  \E j \in {2, 3} :
    \E p \in {ColumnIn(ColA, <<QPtr(j)>>), Eq(Col("b"), QPtr(j))} :
      /\ IsSelect(1) /\ IsSelect(j)
      /\ heap[1].where.k = "nil"
      /\ Where(1, <<p>>)

NestWith == IsSelect(1) /\ IsSelect(3) /\ heap[1].ctes = <<>> /\ With(1, "c", 3)

NestUnion ==
  \E all \in BOOLEAN :
    IsSelect(1) /\ IsSelect(2) /\ heap[1].unions = <<>> /\ Union(1, all, <<2>>)

NestBuild == BuildQuery(1)

NextNest ==
  \/ NestSelect
  \/ NestFromTable
  \/ NestFromQuery
  \/ NestJoin
  \/ NestWhere
  \/ NestWhereQuery
  \/ NestWith
  \/ NestUnion
  \/ NestBuild

SpecNest == InitNest /\ [][NextNest]_vars

\* The events of one kind in the trace of the last Build, in order.
Events(kind) == SelectSeq(out.ctx.trace, LAMBDA e : e.ev = kind)

\* How many renders are open after the first i events of the trace.
Depth(tr, i) ==
  Cardinality({j \in 1..i : tr[j].ev = "enter"}) - Cardinality({j \in 1..i : tr[j].ev = "exit"})

\* C2: under the numbered dialect the placeholder count of the build context
\* never decreases from one step of a Build to the next, through every nested
\* render; the k-th placeholder requested carries the numeral k; and the SQL
\* holds each of the tokens $1..$n exactly once, n being the number of
\* placeholders requested.
C2_NumberingNeverResets ==
  (Built /\ out.dialect = dialectPostgres) =>
    LET tr == out.ctx.trace
        phs == Events("ph")
    IN /\ \A i \in 2..Len(tr) : tr[i].p >= tr[i - 1].p
       /\ \A k \in DOMAIN phs : phs[k].n = k /\ phs[k].p = k
       /\ \A i \in DOMAIN out.sql : out.sql[i].n > 0 =>
            /\ out.sql[i].n \in 1..Len(phs)
            /\ out.sql[i].s = "$" \o ToString(out.sql[i].n)
       /\ \A k \in DOMAIN phs : Cardinality({i \in DOMAIN out.sql : out.sql[i].n = k}) = 1

\* C2's case: a Build under the numbered dialect that requests a placeholder
\* in the outer statement, then inside a render nested two deep, then in the
\* outer statement again.
C2_Witness ==
  /\ Built /\ out.dialect = dialectPostgres
  /\ LET tr == out.ctx.trace
     IN \E i, j, k \in DOMAIN tr :
          /\ i < j /\ j < k
          /\ tr[i].ev = "ph" /\ Depth(tr, i) = 1
          /\ tr[j].ev = "ph" /\ Depth(tr, j) = 3
          /\ tr[k].ev = "ph" /\ Depth(tr, k) = 1

\* The generated aliases written in a text, in the order of the text.
AliasNames == {"subq_" \o ToString(k) : k \in 1..MaxQueries}

AliasTokens(text) == SelectSeq(Norm(text), LAMBDA w : w \in AliasNames)

\* The alias-less derived tables a SELECT refers to directly, in call order:
\* the FROM target, then the JOIN targets.
DirectDerived(q) ==
  LET tables == (IF q.from.k = "nil" THEN <<>> ELSE <<q.from>>)
                  \o [i \in DOMAIN q.joins |-> q.joins[i].c[1]]
      derived == SelectSeq(tables, LAMBDA t : t.k = "table" /\ t.q # 0 /\ t.t = "")
  IN [i \in DOMAIN derived |-> derived[i].q]

\* C4: in one Build the k-th alias generated is subq_k; no Query is given
\* two aliases and no alias is given to two Queries; every alias-less
\* derived table is written with the alias of its Query, which is generated
\* at the Query's first such use; and the outer statement uses its FROM
\* target, then its JOIN targets in call order.
C4_AliasesStableAndUnique ==
  Built =>
    LET tr == out.ctx.trace
        gen == Events("alias")
        used == Events("derived")
        written == AliasTokens(out.sql)
        aliases == out.ctx.subqueryAliases
        top == SelectSeq([i \in DOMAIN tr |-> [e |-> tr[i], d |-> Depth(tr, i)]],
                         LAMBDA x : x.e.ev = "derived" /\ x.d = 1)
    IN /\ \A k \in DOMAIN gen : gen[k].n = k /\ aliases[gen[k].q] = "subq_" \o ToString(k)
       /\ \A i, j \in DOMAIN gen : gen[i].q = gen[j].q => i = j
       /\ \A q \in QIds : aliases[q] # "" => \E k \in DOMAIN gen : gen[k].q = q
       /\ \A a, b \in QIds : (aliases[a] # "" /\ aliases[a] = aliases[b]) => a = b
       /\ Len(written) = Len(used)
       /\ \A k \in DOMAIN used : written[k] = aliases[used[k].q]
       /\ \A i \in DOMAIN tr :
            tr[i].ev = "alias" => i < Len(tr) /\ tr[i + 1].ev = "derived" /\ tr[i + 1].q = tr[i].q
       /\ \A i \in DOMAIN tr :
            tr[i].ev = "derived" =>
              \/ i > 1 /\ tr[i - 1].ev = "alias" /\ tr[i - 1].q = tr[i].q
              \/ \E j \in 1..(i - 1) : tr[j].ev = "derived" /\ tr[j].q = tr[i].q
       /\ heap[out.q].unions = <<>> =>
            [i \in DOMAIN top |-> top[i].e.q] = DirectDerived(heap[out.q])

\* C4's case: a Build in which one Query is written twice as an alias-less
\* derived table, beside another Query with another alias.
C4_Witness ==
  /\ Built
  /\ LET used == Events("derived")
     IN \E i, j, k \in DOMAIN used :
          /\ i < j /\ used[i].q = used[j].q
          /\ used[k].q # used[i].q
  /\ Len(Events("alias")) = 2

(***************************************************************************)
(* SpecKind: one Query, created by New or by RawQuery, takes the calls     *)
(* that start a statement, calls that fill it, dialect changes on the      *)
(* Query and on the package, and is built.                                 *)
(***************************************************************************)
KindCalls == 4

InitKind ==
  /\ defaultDialect = dialectMySQL
  /\ out = NoOut
  /\ err = ""
  /\ lastCall = NoCall
  /\ origin = [q \in QIds |-> NoOrigin]
  /\ threads = [t \in Threads |-> Idle]
  /\ contexts = [t \in Threads |-> newBuildContext(NilDialect)]
  /\ defaultTextSearchConfig = "english"
  /\ locks = [s \in Settings |-> Unlocked]
  /\ settled = [s \in Settings |-> IF s = "defaultDialect" THEN dialectMySQL ELSE "english"]
  /\ pageCalls = [q \in QIds |-> NoPage]
  /\ \E first \in {New(dialectMySQL), RawQuery(<<"SELECT", " ", "1">>, <<>>)} :
       /\ heap = [q \in QIds |-> IF q = 1 THEN first ELSE ZeroQuery]
       /\ firstKind = [q \in QIds |-> IF q = 1 THEN first.qType ELSE ""]
  /\ fuel = KindCalls

KindSelect == Len(heap[1].selectColumns) < MaxList /\ Select(1, <<Lit("v1")>>)

KindInsertInto == Len(heap[1].insertCols) < MaxList /\ InsertInto(1, Str("t"), <<"a">>)

KindValues == Len(heap[1].insertValues) < MaxList /\ Values(1, <<Lit("v2")>>)

KindUpdate == Update(1, Str("t"))

KindSet == Len(heap[1].setClauses) < MaxList /\ SetClauses(1, <<Set("a", Lit("v3"))>>)

KindDeleteFrom == DeleteFrom(1, Str("t"))

KindWhere == heap[1].where.k = "nil" /\ Where(1, <<Eq(ColA, Lit("v5"))>>)

KindWithDialect == \E d \in Dialects \cup {NilDialect} : WithDialect(1, d)

KindSetDefaultDialect == \E d \in Dialects : SetDefaultDialect(d)

KindBuild == BuildQuery(1)

NextKind ==
  \/ KindSelect
  \/ KindInsertInto
  \/ KindValues
  \/ KindUpdate
  \/ KindSet
  \/ KindDeleteFrom
  \/ KindWhere
  \/ KindWithDialect
  \/ KindSetDefaultDialect
  \/ KindBuild

SpecKind == InitKind /\ [][NextKind]_vars

\* C5: the kind of a Query is the kind that its first kind-establishing
\* call (or RawQuery at creation) gave it, whatever calls follow.
C5_KindFixedByFirstCall ==
  \A id \in QIds : firstKind[id] # "" => heap[id].qType = firstKind[id]

\* C6: a Build of the Query that has not been mutated since the Build the
\* caller holds returns the same SQL text and the same args (or the same
\* panic).
C6_BuildTwiceIdentical ==
  out.q # 0 =>
    LET again == Build(heap, defaultDialect, out.q)
    IN again.panic = out.panic /\ again.sql = out.sql /\ again.args = out.args

(***************************************************************************)
(* SpecUnion: the SELECT Query 1 takes the Queries 2 and 3 as union        *)
(* partners; Limit, Offset and OrderBy calls come before and after the     *)
(* partners are added, Query 2 has a LIMIT and an ORDER BY of its own and  *)
(* may carry Query 3 as a CTE.                                             *)
(***************************************************************************)
UnionCalls == 10

MaxUnions == 2

InitUnion ==
  /\ InitBase
  /\ \E d \in Dialects : heap = [q \in QIds |-> IF q = 1 THEN New(d) ELSE New(dialectMySQL)]
  /\ fuel = UnionCalls

UnionSelect ==
  \E id \in {1, 2, 3} :
    Fresh(id) /\ Select(id, <<IF id = 3 THEN Lit("v3") ELSE Str("c" \o ToString(id))>>)

\* Limit(5) on Query 1 before it has partners and Limit(9) after; Limit(7)
\* on Query 2.
UnionLimit ==
  \E id \in {1, 2} :
    /\ IsSelect(id)
    /\ IF id = 2 THEN heap[2].limit = Nil
       ELSE IF heap[1].unions = <<>> THEN heap[1].limit = Nil ELSE heap[1].setLimit = Nil
    /\ Limit(id, IF id = 2 THEN 7 ELSE IF heap[1].unions = <<>> THEN 5 ELSE 9)

UnionOffset ==
  /\ IsSelect(1)
  /\ IF heap[1].unions = <<>> THEN heap[1].offset = Nil ELSE heap[1].setOffset = Nil
  /\ Offset(1, IF heap[1].unions = <<>> THEN 2 ELSE 4)

UnionOrderBy ==
  \E id \in {1, 2} :
    IsSelect(id) /\ heap[id].orderBy = <<>> /\ OrderBy(id, <<Str("o" \o ToString(id))>>)

UnionWith == IsSelect(2) /\ IsSelect(3) /\ heap[2].ctes = <<>> /\ With(2, "c", 3)

\* Union(2) and UnionAll(3); a partner that is not a SELECT makes the call
\* panic.
UnionUnion ==
  \E j \in {2, 3} :
    /\ Len(heap[1].unions) < MaxUnions
    /\ \A i \in DOMAIN heap[1].unions : heap[1].unions[i].q # j
    /\ Union(1, j = 3, <<j>>)

UnionBuild == BuildQuery(1)

NextUnion ==
  \/ UnionSelect
  \/ UnionLimit
  \/ UnionOffset
  \/ UnionOrderBy
  \/ UnionWith
  \/ UnionUnion
  \/ UnionBuild

SpecUnion == InitUnion /\ [][NextUnion]_vars

\* The first and the last place of a word in a text (past the end, and 0,
\* when the text has no such word).
FirstOf(text, words) ==
  IF \E i \in DOMAIN text : text[i] \in words
  THEN CHOOSE i \in DOMAIN text : text[i] \in words /\ \A j \in 1..(i - 1) : text[j] \notin words
  ELSE Len(text) + 1

LastOf(text, words) ==
  IF \E i \in DOMAIN text : text[i] \in words
  THEN CHOOSE i \in DOMAIN text :
         text[i] \in words /\ \A j \in (i + 1)..Len(text) : text[j] \notin words
  ELSE 0

\* The places lo..hi of a text hold the keyword kw exactly once, and it is
\* followed by the number n.
OnceWith(text, lo, hi, kw, n) ==
  /\ Cardinality({i \in lo..hi : text[i] = kw}) = 1
  /\ \E i \in lo..(hi - 2) : text[i] = kw /\ text[i + 1] = " " /\ text[i + 2] = ToString(n)

Never(text, lo, hi, kw) == \A i \in lo..hi : text[i] # kw

Bound(text, lo, hi, kw, n) ==
  IF n = Nil THEN Never(text, lo, hi, kw) ELSE OnceWith(text, lo, hi, kw, n)

UnionWords == {"UNION", "UNION ALL"}

\* C7: in the SQL of a SELECT, the number of the last Limit (Offset) call
\* made while the Query had no partners stands after LIMIT (OFFSET) before
\* the first UNION word, the number of the last call made after a partner
\* was added stands after LIMIT (OFFSET) behind the last operand, and each
\* of the two places holds the keyword only when such a call was made.
C7_PaginationBindsByCallTime ==
  (Built /\ out.q = 1) =>
    LET text == Norm(out.sql)
        first == FirstOf(text, UnionWords)
        last == IF first > Len(text) THEN Len(text) ELSE LastOf(text, {")"})
        calls == pageCalls[1]
    IN /\ Bound(text, 1, first - 1, "LIMIT", calls.limit)
       /\ Bound(text, 1, first - 1, "OFFSET", calls.offset)
       /\ Bound(text, last + 1, Len(text), "LIMIT", calls.setLimit)
       /\ Bound(text, last + 1, Len(text), "OFFSET", calls.setOffset)
       /\ (calls.setLimit # Nil \/ calls.setOffset # Nil) => first <= Len(text)

\* C7's case: a Limit before the partners and another one after them, both
\* in the SQL.
C7_Witness ==
  /\ Built
  /\ out.q = 1
  /\ pageCalls[1].limit = 5
  /\ pageCalls[1].setLimit = 9
  /\ pageCalls[1].setOffset = 4
  /\ Len(heap[1].unions) = 2

\* The text of a Query as an operand: the SELECT on its own, with its CTEs
\* and its own LIMIT and OFFSET, without ORDER BY.
OperandText(id) ==
  LET alone == [heap EXCEPT ![id] = [@ EXCEPT !.unions = <<>>, !.orderBy = <<>>,
                                                !.setLimit = Nil, !.setOffset = Nil]]
  IN Norm(Build(alone, dialectMySQL, id).sql)

RECURSIVE PartnersText(_)
PartnersText(unions) ==
  IF unions = <<>> THEN <<>>
  ELSE <<" ", IF Head(unions).b THEN "UNION ALL" ELSE "UNION", " ", "(">>
         \o OperandText(Head(unions).q) \o <<")">> \o PartnersText(Tail(unions))

NumberText(kw, n) == IF n = Nil THEN <<>> ELSE <<" ", kw, " ", ToString(n)>>

\* C8: the SQL of a SELECT with partners is the base operand, then for
\* every partner in the order of the Union calls the UNION (UNION ALL) word
\* and the partner's operand text in parentheses, then the ORDER BY of the
\* base Query once, then the LIMIT and OFFSET of the set once; no operand
\* holds an ORDER BY.
C8_SetOperandsThenOrdering ==
  (Built /\ out.q = 1 /\ heap[1].unions # <<>>) =>
    LET q == heap[1]
        order == IF q.orderBy = <<>> THEN <<>>
                 ELSE <<" ", "ORDER BY", " ">>
                        \o JoinStrings([i \in DOMAIN q.orderBy |-> TextOf(q.orderBy[i])], ",")
    IN /\ Norm(out.sql) = OperandText(1) \o PartnersText(q.unions) \o order
                            \o NumberText("LIMIT", q.setLimit)
                            \o NumberText("OFFSET", q.setOffset)
       /\ \A id \in {1} \cup {q.unions[i].q : i \in DOMAIN q.unions} :
            Never(OperandText(id), 1, Len(OperandText(id)), "ORDER BY")

\* C8's case: two partners, one by Union and one by UnionAll, the first
\* with a CTE, a LIMIT and an ORDER BY of its own, under an ORDER BY and a
\* LIMIT of the set.
C8_Witness ==
  /\ Built
  /\ out.q = 1
  /\ Len(heap[1].unions) = 2
  /\ heap[1].orderBy # <<>>
  /\ heap[1].setLimit # Nil
  /\ heap[2].ctes # <<>>
  /\ heap[2].limit # Nil
  /\ heap[2].orderBy # <<>>

(***************************************************************************)
(* SpecDialect: Query 1, a SELECT or an INSERT created under either        *)
(* dialect, takes plain expressions, JSON helpers, a MATCH predicate, a    *)
(* conflict handler and Query 2 as a derived table, and is built.          *)
(***************************************************************************)
DialectCalls == 5

InitDialect ==
  /\ InitBase
  /\ \E d \in Dialects : heap = [q \in QIds |-> IF q = 1 THEN New(d) ELSE New(dialectMySQL)]
  /\ fuel = DialectCalls

DialectSelect ==
  \E e \in {Lit("v1"), JSONExtract("doc", Lit("$.a")), JSONExtractText("doc", Lit("$.a"))} :
    Fresh(1) /\ Select(1, <<e>>)

DialectInner ==
  \E e \in {Lit("v7"), JSONExtract("doc", Lit("$.b"))} : Fresh(2) /\ Select(2, <<e>>)

DialectFrom == IsSelect(1) /\ IsSelect(2) /\ heap[1].from.k = "nil" /\ From(1, QPtr(2))

DialectWhere ==
  \E p \in {Eq(ColA, Lit("v5")), ColumnIn(ColA, <<Lit("v1"), Lit("v2")>>),
            JSONContains("doc", Lit("v6")), MatchAgainst("title", "words", "")} :
    IsSelect(1) /\ heap[1].where.k = "nil" /\ Where(1, <<p>>)

DialectLimit == IsSelect(1) /\ heap[1].limit = Nil /\ Limit(1, 3)

DialectInsertInto == Fresh(1) /\ InsertInto(1, Str("t"), <<"a">>)

DialectValues ==
  heap[1].qType = queryTypeInsert /\ heap[1].insertValues = <<>> /\ Values(1, <<Lit("v2")>>)

DialectOnConflictDoNothing ==
  \E target \in {<<>>, <<"a">>} :
    /\ heap[1].qType = queryTypeInsert
    /\ ~heap[1].onConflictDoNothing
    /\ OnConflictDoNothing(1, target)

DialectOnConflictDoUpdate ==
  /\ heap[1].qType = queryTypeInsert
  /\ heap[1].onConflictSet = <<>>
  /\ OnConflictDoUpdate(1, <<"a">>, <<Set("a", Lit("v3"))>>)

DialectBuild == BuildQuery(1)

NextDialect ==
  \/ DialectSelect
  \/ DialectInner
  \/ DialectFrom
  \/ DialectWhere
  \/ DialectLimit
  \/ DialectInsertInto
  \/ DialectValues
  \/ DialectOnConflictDoNothing
  \/ DialectOnConflictDoUpdate
  \/ DialectBuild

SpecDialect == InitDialect /\ [][NextDialect]_vars

Range(s) == {s[i] : i \in DOMAIN s}

\* Every node a Query holds, and the Queries it refers to.
QueryNodes(q) ==
  UNION {Subnodes(e) :
           e \in Range(q.selectColumns) \cup {q.from} \cup Range(q.joins) \cup {q.where}
                   \cup Range(q.groupBy) \cup {q.having} \cup Range(q.orderBy)
                   \cup {q.insertTable, q.updateTable, q.deleteTable}
                   \cup UNION {Range(q.insertValues[i]) : i \in DOMAIN q.insertValues}
                   \cup Range(q.setClauses) \cup Range(q.onConflictSet)
                   \cup Range(q.returning) \cup Range(q.ctes) \cup Range(q.unions)}

RECURSIVE Nested(_, _)
Nested(ids, n) ==
  IF n = 0 THEN ids
  ELSE Nested(ids \cup ({x.q : x \in UNION {QueryNodes(heap[i]) : i \in ids}} \ {0}), n - 1)

DialectConditional == {"match", "tsquery", "tsrank", "jsonx", "jsonc"}

\* The Query and the Queries nested in it have no conflict handler and no
\* node whose text depends on the dialect.
DialectFree(id) ==
  \A i \in Nested({id}, MaxQueries) :
    /\ heap[i].onConflictSet = <<>>
    /\ ~heap[i].onConflictDoNothing
    /\ \A x \in QueryNodes(heap[i]) : x.k \notin DialectConditional

\* The Build of the Query of the last Build under the other dialect.
OtherDialect(d) == IF d = dialectMySQL THEN dialectPostgres ELSE dialectMySQL

BuildUnderOther ==
  Build([heap EXCEPT ![out.q] = QueryWithDialect(@, OtherDialect(out.dialect))],
        defaultDialect, out.q)

SameButPlaceholders ==
  /\ BuildUnderOther.panic = ""
  /\ Norm(BuildUnderOther.sql) = Norm(out.sql)
  /\ BuildUnderOther.args = out.args

\* C10 (as the claim states it): the Build of a Query under the other
\* dialect gives the same SQL but for the placeholder tokens, and the same
\* args in the same order.
C10_DialectsDifferOnlyInPlaceholders == Built => SameButPlaceholders

\* C10 (as the code has it): the Build of a Query that has no conflict
\* handler, no JSON helper and no MATCH predicate, in itself or in a Query
\* nested in it, gives under the other dialect the same SQL but for the
\* placeholder tokens, and the same args in the same order.
C10_PlainQueriesDifferOnlyInPlaceholders ==
  (Built /\ DialectFree(out.q)) => SameButPlaceholders

\* C10's case: a Build under Postgres of a SELECT over a derived table with
\* three bound values, none of them in a dialect-conditional construct.
C10_Witness ==
  /\ Built
  /\ out.dialect = dialectPostgres
  /\ DialectFree(out.q)
  /\ heap[out.q].from.q = 2
  /\ Len(out.args) >= 3

(***************************************************************************)
(* Misuse scenarios: Returning and Union on Queries of every kind, with    *)
(* operands that are nil, of no kind, of another kind, or SELECTs.         *)
(***************************************************************************)
MisuseCalls == 3

InitMisuse ==
  /\ InitBase
  /\ \E first \in {New(dialectPostgres), RawQuery(<<"SELECT", " ", "1">>, <<>>)} :
       heap = [q \in QIds |-> IF q = 1 THEN first ELSE New(dialectPostgres)]
  /\ fuel = MisuseCalls

MisuseSelect == \E id \in QIds : Fresh(id) /\ Select(id, <<Lit("v1")>>)

MisuseInsertInto == \E id \in {1, 2} : Fresh(id) /\ InsertInto(id, Str("t"), <<"a">>)

MisuseUpdate == Fresh(1) /\ Update(1, Str("t"))

MisuseDeleteFrom == Fresh(1) /\ DeleteFrom(1, Str("t"))

MisuseReturning ==
  \E e \in {<<Str("id")>>, <<Col("id"), Lit("v1")>>} : Returning(1, e)

MisuseUnion ==
  \E all \in BOOLEAN : \E qs \in SeqsUpTo({0, 2, 3}, MaxList) : Union(1, all, qs)

MisuseBuild == BuildQuery(1)

NextMisuse ==
  \/ MisuseSelect
  \/ MisuseInsertInto
  \/ MisuseUpdate
  \/ MisuseDeleteFrom
  \/ MisuseReturning
  \/ MisuseUnion
  \/ MisuseBuild

SpecMisuse == InitMisuse /\ [][NextMisuse]_vars

ReturningKinds == {queryTypeInsert, queryTypeUpdate, queryTypeDelete}

\* The operand of a Union call that the call must refuse: nil, or not a SELECT.
BadOperand(o) == o = 0 \/ heap[o].qType # queryTypeSelect

\* C11: a Returning call on a Query whose kind is SELECT, RAW or not set ends
\* in a panic and leaves the Query as it was, and on an INSERT, UPDATE or
\* DELETE it returns and appends its expressions; a Union or UnionAll call
\* ends in a panic exactly when the receiver is not a SELECT (with a message
\* of its own when the receiver has no kind), or an operand is nil, or an
\* operand is not a SELECT, and otherwise appends one partner per operand.
C11_MisusePanicsAtCall ==
  LET b == lastCall.before
      a == heap[lastCall.id]
      ops == lastCall.queries
      bad == \E i \in DOMAIN ops : BadOperand(ops[i])
  IN /\ lastCall.op = "Returning" =>
          IF b.qType \in ReturningKinds
          THEN /\ err = ""
               /\ a = [b EXCEPT !.returning = b.returning \o toSQLExpressions(lastCall.expressions)]
          ELSE /\ err # ""
               /\ a = b
     /\ lastCall.op = "Union" =>
          /\ err # "" <=> (b.qType # queryTypeSelect \/ bad)
          /\ b.qType = "" => err = "UNION requer uma consulta SELECT inicial"
          /\ b.qType \notin {"", queryTypeSelect} =>
               err = "UNION pode ser usado apenas em consultas SELECT"
          /\ b.qType # queryTypeSelect => a = b
          /\ (b.qType = queryTypeSelect /\ bad) =>
               err \in {"UNION requer queries nao nulas",
                        "UNION aceita apenas queries SELECT como operando"}
          /\ err = "" =>
               a = [b EXCEPT !.unions = b.unions \o
                      [i \in DOMAIN ops |-> unionClause(ops[i], lastCall.all)]]

\* A Returning call on a SELECT has panicked.
C11_Witness ==
  /\ lastCall.op = "Returning"
  /\ lastCall.before.qType = queryTypeSelect
  /\ err = "RETURNING is not supported on SELECT queries"

(***************************************************************************)
(* UPDATE scenarios: an UPDATE with or without SET clauses, built on its   *)
(* own and nested in another Query as a CTE or as a derived table.         *)
(***************************************************************************)
UpdateCalls == 5

InitUpdate ==
  /\ InitBase
  /\ heap = [q \in QIds |-> IF q \in {1, 2} THEN New(dialectPostgres) ELSE ZeroQuery]
  /\ fuel = UpdateCalls

UpdSelect == Fresh(1) /\ Select(1, <<Lit("v1")>>)

UpdUpdate == \E id \in {1, 2} : Fresh(id) /\ Update(id, Str("t"))

UpdSet ==
  \E id \in {1, 2} :
    /\ heap[id].qType = queryTypeUpdate
    /\ Len(heap[id].setClauses) < MaxList
    /\ SetClauses(id, <<Set("a", Lit("v2"))>>)

UpdWhere ==
  \E id \in {1, 2} : heap[id].where.k = "nil" /\ Where(id, <<Eq(ColA, Lit("v3"))>>)

UpdFromQuery == ~Fresh(1) /\ heap[1].from.k = "nil" /\ From(1, QPtr(2))

UpdWith == heap[1].ctes = <<>> /\ With(1, "c", 2)

UpdBuild == \E id \in {1, 2} : BuildQuery(id)

NextUpdate ==
  \/ UpdSelect
  \/ UpdUpdate
  \/ UpdSet
  \/ UpdWhere
  \/ UpdFromQuery
  \/ UpdWith
  \/ UpdBuild

SpecUpdate == InitUpdate /\ [][NextUpdate]_vars

NoSetMessage == "UPDATE requires at least one SET clause"

NoSet(id) == heap[id].qType = queryTypeUpdate /\ heap[id].setClauses = <<>>

\* C12: a Build that meets an UPDATE without SET clauses, as the Query built
\* or nested in it, panics and returns no SQL and no arguments; the panic is
\* 'UPDATE requires at least one SET clause' unless a Query without a kind is
\* met as well, and that panic has no other cause.
C12_UpdateWithoutSetPanics ==
  out.q # 0 =>
    LET met == Nested({out.q}, MaxQueries)
        noSet == \E i \in met : NoSet(i)
    IN /\ noSet => (out.panic # "" /\ out.sql = <<>> /\ out.args = <<>>)
       /\ (noSet /\ \A i \in met : ~Fresh(i)) => out.panic = NoSetMessage
       /\ out.panic = NoSetMessage => noSet

\* The Build of a SELECT has bound an argument and then met a nested UPDATE
\* without SET clauses.
C12_Witness ==
  /\ out.q = 1
  /\ IsSelect(1)
  /\ NoSet(2)
  /\ 2 \in Nested({1}, MaxQueries)
  /\ out.ctx.args # <<>>
  /\ out.panic = NoSetMessage
  /\ out.sql = <<>>

(***************************************************************************)
(* IN scenarios: the caller hands Column.In lists of every length, the     *)
(* empty one included, and code of the package puts IN nodes with an empty *)
(* list into a WHERE clause directly.                                      *)
(***************************************************************************)
InCalls == 3

InitIn ==
  /\ InitBase
  /\ heap = [q \in QIds |-> IF q = 1 THEN New(dialectPostgres) ELSE ZeroQuery]
  /\ fuel = InCalls

InSelect == \E c \in {Lit("v1"), Col("b")} : Fresh(1) /\ Select(1, <<c>>)

\* Where(Col("a").In(values...)): a panic of Column.In ends the statement
\* before Where is called.
InWhereIn ==
  \E l \in SeqsUpTo(ListItems, MaxList) :
    LET p == ColumnIn(ColA, l)
        call == [NoCall EXCEPT !.op = "In", !.id = 1, !.before = heap[1], !.expressions = l]
    IN /\ heap[1].where.k = "nil"
       /\ IF p.k = "panic"
          THEN /\ Touch(1, heap[1])
               /\ err' = p.s
               /\ lastCall' = call
               /\ UNCHANGED <<defaultDialect, firstKind, pageCalls, origin>>
          ELSE /\ Touch(1, QueryWhere(heap[1], <<p>>))
               /\ err' = ""
               /\ lastCall' = call
               /\ UNCHANGED <<defaultDialect, firstKind, pageCalls, origin>>

EmptyInPreds ==
  {inPredicate(ColA, <<>>), inPredicate(RawBound, <<>>),
   And(<<Eq(ColA, Lit("v2")), inPredicate(ColA, <<>>)>>),
   Not(inPredicate(ColA, <<>>))}

InWhereEmptyNode == \E p \in EmptyInPreds : heap[1].where.k = "nil" /\ Where(1, <<p>>)

InBuild == BuildQuery(1)

NextIn ==
  \/ InSelect
  \/ InWhereIn
  \/ InWhereEmptyNode
  \/ InBuild

SpecIn == InitIn /\ [][NextIn]_vars

EmptyListMessage == "IN list cannot be empty"

IsEmptyIn(e) == e.k = "in" /\ Len(e.c) = 1

\* The expression with one value put into every empty IN list.
RECURSIVE Probed(_)
Probed(e) ==
  IF IsEmptyIn(e) THEN [e EXCEPT !.c = <<e.c[1], Value("probe")>>]
  ELSE [e EXCEPT !.c = [i \in DOMAIN e.c |-> Probed(e.c[i])]]

\* The arguments a Build of the Query binds before it comes to the first
\* empty IN list of its WHERE clause.
ArgsBeforeEmptyIn(id) ==
  LET probed == Build([heap EXCEPT ![id].where = Probed(@)], defaultDialect, id).args
      k == CHOOSE i \in DOMAIN probed :
             probed[i] = "probe" /\ \A j \in 1..(i - 1) : probed[j] # "probe"
  IN SubSeq(probed, 1, k - 1)

\* C13: a call of Column.In without values ends in the panic 'IN list cannot
\* be empty' and leaves the Query alone, a call with values returns; a Build
\* of a SELECT whose WHERE clause holds an IN node with an empty list panics
\* with the same message,
\* returns no SQL and no arguments, and its context holds the arguments
\* bound before the node and none of the node's own.
C13_EmptyInPanics ==
  /\ lastCall.op = "In" =>
       IF lastCall.expressions = <<>>
       THEN err = EmptyListMessage /\ heap[1] = lastCall.before
       ELSE err = "" /\ heap[1] # lastCall.before
  /\ (out.q # 0 /\ IsSelect(out.q)
        /\ \E e \in Subnodes(heap[out.q].where) : IsEmptyIn(e)) =>
       /\ out.panic = EmptyListMessage
       /\ out.sql = <<>>
       /\ out.args = <<>>
       /\ out.ctx.args = ArgsBeforeEmptyIn(out.q)

\* A Build has bound arguments and then come to an IN node with an empty
\* list whose left operand binds an argument of its own.
C13_Witness ==
  /\ out.q = 1
  /\ out.panic = EmptyListMessage
  /\ out.ctx.args # <<>>
  /\ \E e \in Subnodes(heap[1].where) : IsEmptyIn(e) /\ e.c[1] = RawBound

(***************************************************************************)
(* Feature scenarios: a Query holding MATCH, tsvector and JSON nodes is    *)
(* built under the MySQL dialect, the Postgres dialect and a dialect that  *)
(* exposes no kind, set on the Query or taken from the package default.    *)
(***************************************************************************)
FeatureCalls == 4

InitFeature ==
  /\ InitBase
  /\ heap = [q \in QIds |-> IF q = 1 THEN New(dialectMySQL) ELSE ZeroQuery]
  /\ fuel = FeatureCalls

Vectors ==
  {TsVector("english", <<"title">>),
   WithConfig(TsVector("english", <<"title", "body">>), "it's"),
   TsVector("simple", <<>>)}

FeatSelectInputs ==
  {Lit("v1"), JSONExtract("doc", Lit("v2")), JSONExtractText("doc", Lit("v2"))}
    \cup {RankWebSearch(t, "words", <<>>) : t \in Vectors}
    \cup {RankPlainQuery(t, "words", <<1>>) : t \in Vectors}

FeatWhereInputs ==
  {Eq(ColA, Lit("v3")), MatchAgainst("title", "words", ""),
   MatchAgainst("title", "words", "BOOLEAN MODE"), JSONContains("doc", Lit("v4"))}
    \cup {WebSearch(t, "words") : t \in Vectors}
    \cup {PlainQuery(t, "words") : t \in Vectors}

FeatSelect == \E c \in FeatSelectInputs : Fresh(1) /\ Select(1, <<c>>)

FeatWhere == \E p \in FeatWhereInputs : heap[1].where.k = "nil" /\ Where(1, <<p>>)

FeatOrderBy ==
  /\ heap[1].orderBy = <<>>
  /\ OrderBy(1, <<Desc(RankWebSearch(TsVector("english", <<"title">>), "words", <<>>))>>)

FeatWithDialect ==
  \E d \in Dialects \cup {dialectOpaque, NilDialect} :
    heap[1].dialect # d /\ WithDialect(1, d)

FeatSetDefaultDialect ==
  \E d \in Dialects \cup {dialectOpaque} : defaultDialect # d /\ SetDefaultDialect(d)

FeatBuild == BuildQuery(1)

NextFeature ==
  \/ FeatSelect
  \/ FeatWhere
  \/ FeatOrderBy
  \/ FeatWithDialect
  \/ FeatSetDefaultDialect
  \/ FeatBuild

SpecFeature == InitFeature /\ [][NextFeature]_vars

\* The dialects under which a node renders.
RendersUnder(x) ==
  CASE x.k = "match" -> {dialectMySQL}
    [] x.k \in {"tsquery", "tsrank"} -> {dialectPostgres}
    [] x.k \in {"jsonx", "jsonc"} -> Dialects
    [] OTHER -> Dialects \cup {dialectOpaque}

\* The word by which the text of a dialect-exclusive node is known.
FeatureWords(x, d) ==
  CASE x.k = "match" -> {"MATCH"}
    [] x.k = "tsquery" -> {"@@"}
    [] x.k = "tsrank" -> {"ts_rank"}
    [] x.k = "jsonx" -> IF d = dialectMySQL THEN {"JSON_EXTRACT"} ELSE {"jsonb_path_query_first"}
    [] x.k = "jsonc" -> IF d = dialectMySQL THEN {"JSON_CONTAINS"} ELSE {"@>"}
    [] OTHER -> {}

\* C14: a Build of a SELECT under the dialect d panics and returns no SQL
\* and no arguments when the Query holds a MATCH node and d is not of the
\* MySQL kind, a tsvector predicate or score and d is not of the Postgres
\* kind, or a JSON node and d has no recognized kind, a dialect that exposes
\* no kind included; otherwise it returns the text of every such node.
C14_ExclusiveNodesFailClosed ==
  (out.q # 0 /\ IsSelect(out.q)) =>
    LET d == out.dialect
        nodes == QueryNodes(heap[out.q])
    IN IF \E x \in nodes : d \notin RendersUnder(x)
       THEN out.panic # "" /\ out.sql = <<>> /\ out.args = <<>>
       ELSE /\ out.panic = ""
            /\ \A x \in nodes : \A w \in FeatureWords(x, d) : HasWord(out.sql, w)

\* A tsvector predicate has been built under a dialect that exposes no kind.
C14_Witness ==
  /\ out.q = 1
  /\ IsSelect(1)
  /\ out.dialect = dialectOpaque
  /\ \E x \in Subnodes(heap[1].where) : x.k = "tsquery"
  /\ out.panic # ""

(***************************************************************************)
(* Default-dialect scenarios: Queries are created by New and RawQuery, the *)
(* package default is replaced, Queries get a dialect of their own, and    *)
(* are built, in every order.                                              *)
(***************************************************************************)
DefaultCalls == 5

InitDefault ==
  /\ InitBase
  /\ heap = [q \in QIds |-> ZeroQuery]
  /\ fuel = DefaultCalls

DefNew == \E id \in {1, 2} : NewQuery(id)

DefRawQuery == \E id \in {1, 2} : NewRawQuery(id, <<"SELECT", " ", "1">>, <<>>)

DefSetDefaultDialect == \E d \in Dialects : defaultDialect # d /\ SetDefaultDialect(d)

DefWithDialect == \E id \in {1, 2} : \E d \in Dialects : WithDialect(id, d)

DefSelect == \E id \in {1, 2} : heap[id].selectColumns = <<>> /\ Select(id, <<Lit("v1")>>)

DefBuild == \E id \in {1, 2} : heap[id].alive /\ BuildQuery(id)

NextDefault ==
  \/ DefNew
  \/ DefRawQuery
  \/ DefSetDefaultDialect
  \/ DefWithDialect
  \/ DefSelect
  \/ DefBuild

SpecDefault == InitDefault /\ [][NextDefault]_vars

\* The Build of the Query of the last Build under the default dialect that
\* was in force when the Query was created.
BuildAsCreated ==
  Build([heap EXCEPT ![out.q] = QueryWithDialect(@, origin[out.q].default)],
        defaultDialect, out.q)

\* C15: a Build of a Query on which WithDialect was never called returns the
\* SQL and the arguments it returns under the default dialect that was in
\* force when the Query was created, whatever SetDefaultDialect calls came
\* between the creation and the Build.
C15_RendersWithCreationDefault ==
  (out.q # 0 /\ ~origin[out.q].overridden) =>
    /\ out.panic = BuildAsCreated.panic
    /\ out.sql = BuildAsCreated.sql
    /\ out.args = BuildAsCreated.args

(***************************************************************************)
(* Concurrent scenarios: goroutines build the same and different Queries,  *)
(* none of which is mutated, their steps interleaved in every way.         *)
(***************************************************************************)
ConcurrentCalls == 3

\* SELECT v1 FROM (Query 2) WHERE a = v3, SELECT b WHERE b = v2, and a RAW
\* query with an argument or an UPDATE without SET clauses.
Prepared(d, third) ==
  [q \in QIds |->
     CASE q = 1 -> QueryWhere(QueryFrom(QuerySelect(New(d), <<Lit("v1")>>), QPtr(2)),
                              <<Eq(ColA, Lit("v3"))>>)
       [] q = 2 -> QueryWhere(QuerySelect(New(d), <<Col("b")>>), <<Eq(Col("b"), Lit("v2"))>>)
       [] q = 3 -> third
       [] OTHER -> ZeroQuery]

InitConcurrent ==
  /\ InitBase
  /\ \E d \in Dialects :
       \E third \in {RawQuery(<<"SELECT", " ", "?">>, <<"r1">>), QueryUpdate(New(d), Str("t"))} :
         heap = Prepared(d, third)
  /\ fuel = ConcurrentCalls

ConcBegin == \E t \in Threads : \E id \in {1, 2, 3} : BuildBegin(t, id)

ConcEnter == \E t \in Threads : BuildEnter(t)

ConcStep == \E t \in Threads : BuildStep(t)

ConcReturn == \E t \in Threads : BuildReturn(t)

NextConcurrent ==
  \/ ConcBegin
  \/ ConcEnter
  \/ ConcStep
  \/ ConcReturn

SpecConcurrent == InitConcurrent /\ [][NextConcurrent]_vars

\* C16: Build calls in progress at the same time hold different build
\* contexts, and a Build call that has returned has returned the SQL, the
\* arguments and the panic that the call returns when it runs alone.
C16_ConcurrentBuildsAsAlone ==
  /\ \A t \in Threads : \A u \in Threads \ {t} :
       (Busy(t) /\ Busy(u)) => threads[t].ctx # threads[u].ctx
  /\ \A t \in Threads :
       threads[t].pc = "done" =>
         LET alone == Build(heap, defaultDialect, threads[t].q)
         IN /\ threads[t].ret.panic = alone.panic
            /\ threads[t].ret.sql = alone.sql
            /\ threads[t].ret.args = alone.args

\* Two Build calls of the same Query have overlapped and both have returned
\* SQL with arguments.
C16_Witness ==
  /\ \A t \in Threads :
       /\ threads[t].pc = "done"
       /\ threads[t].met
       /\ threads[t].q = 1
       /\ threads[t].ret.panic = ""
       /\ Len(threads[t].ret.args) = 3

(***************************************************************************)
(* Lock scenarios: goroutines call the setters and the getters of the two  *)
(* settings, their steps interleaved in every way.                         *)
(***************************************************************************)
LockCalls == 4

SettingInputs(s) ==
  IF s = "defaultDialect" THEN Dialects ELSE {"english", "simple"}

InitLocks ==
  /\ InitBase
  /\ heap = [q \in QIds |-> ZeroQuery]
  /\ fuel = LockCalls

LockSetterBegin ==
  \E t \in Threads : \E s \in Settings : \E v \in SettingInputs(s) : SetterBegin(t, s, v)

LockSetterLock == \E t \in Threads : SetterLock(t)

LockSetterWrite == \E t \in Threads : SetterWrite(t)

LockSetterUnlock == \E t \in Threads : SetterUnlock(t)

LockGetterBegin == \E t \in Threads : \E s \in Settings : GetterBegin(t, s)

LockGetterRLock == \E t \in Threads : GetterRLock(t)

LockGetterRead == \E t \in Threads : GetterRead(t)

LockGetterRUnlock == \E t \in Threads : GetterRUnlock(t)

NextLocks ==
  \/ LockSetterBegin
  \/ LockSetterLock
  \/ LockSetterWrite
  \/ LockSetterUnlock
  \/ LockGetterBegin
  \/ LockGetterRLock
  \/ LockGetterRead
  \/ LockGetterRUnlock

SpecLocks == InitLocks /\ [][NextLocks]_vars

\* The goroutines between the Lock and the Unlock of a setter of the setting.
Writing(s) ==
  {t \in Threads : threads[t].op = "set" /\ threads[t].setting = s
                     /\ threads[t].pc \in {"write", "unlock"}}

\* The goroutines between the RLock and the RUnlock of a getter of the setting.
Reading(s) ==
  {t \in Threads : threads[t].op = "get" /\ threads[t].setting = s
                     /\ threads[t].pc \in {"read", "runlock"}}

\* C17: for each of the two settings, at most one setter is between its
\* Lock and its Unlock, and no getter is between its RLock and its RUnlock
\* while a setter is; and the value a getter has read is the value of the
\* last setter that had returned when the getter took the read lock, the
\* initial value if there was none.
C17_SettingsGuardedByLocks ==
  /\ \A s \in Settings :
       /\ Cardinality(Writing(s)) <= 1
       /\ Writing(s) # {} => Reading(s) = {}
  /\ \A t \in Threads :
       (threads[t].op = "get" /\ threads[t].pc \in {"runlock", "done"}) =>
         threads[t].val = threads[t].seen

\* Two getters of the default dialect are inside together, after a setter
\* that replaced the initial value has returned, and one has read its value.
C17_Witness ==
  /\ Cardinality(Reading("defaultDialect")) >= 2
  /\ settled["defaultDialect"] = dialectPostgres
  /\ \E t \in Reading("defaultDialect") : threads[t].val = dialectPostgres

(***************************************************************************)
(* Keyset scenarios: a SELECT is ordered by columns, wrapped by Asc or     *)
(* Desc or not, or by strings with a direction, and the caller adds        *)
(* Where(KeysetAfter(ordering, cursor...)) or the same with KeysetBefore,  *)
(* over the ordering of the Query, with cursors of every length.           *)
(***************************************************************************)
KeysetCalls == 3

OrderingInputs ==
  {Col("id"), Desc(Col("created_at")), Str("id DESC"), Str("created_at ASC")}

CursorInputs == {Lit("v1"), Lit("v2")}

InitKeyset ==
  /\ InitBase
  /\ heap = [q \in QIds |-> IF q = 1 THEN New(dialectMySQL) ELSE ZeroQuery]
  /\ fuel = KeysetCalls

KeySelect == Fresh(1) /\ Select(1, <<Col("id")>>)

KeyOrderBy ==
  \E o \in SeqsUpTo(OrderingInputs, MaxList) :
    IsSelect(1) /\ heap[1].orderBy = <<>> /\ o # <<>> /\ OrderBy(1, o)

KeyWhereKeyset ==
  \E forward \in BOOLEAN : \E cursor \in SeqsUpTo(CursorInputs, MaxList) :
    LET p == IF forward THEN KeysetAfter(heap[1].orderBy, cursor)
             ELSE KeysetBefore(heap[1].orderBy, cursor)
        call == [NoCall EXCEPT !.op = "Keyset", !.id = 1, !.before = heap[1],
                               !.all = forward, !.expressions = cursor]
    IN /\ IsSelect(1)
       /\ heap[1].where.k = "nil"
       /\ Touch(1, IF p.k = "panic" THEN heap[1] ELSE QueryWhere(heap[1], <<p>>))
       /\ err' = IF p.k = "panic" THEN p.s ELSE ""
       /\ lastCall' = call
       /\ UNCHANGED <<defaultDialect, firstKind, pageCalls, origin>>

KeyQueryKeyset ==
  \E forward \in BOOLEAN : \E cursor \in SeqsUpTo(CursorInputs, MaxList) :
    LET r == IF forward THEN QueryKeysetAfter(heap[1], cursor)
             ELSE QueryKeysetBefore(heap[1], cursor)
        call == [NoCall EXCEPT !.op = "QueryKeyset", !.id = 1, !.before = heap[1],
                               !.all = forward, !.expressions = cursor]
    IN /\ IsSelect(1)
       /\ heap[1].where.k = "nil"
       /\ Touch(1, r.q)
       /\ err' = r.panic
       /\ lastCall' = call
       /\ UNCHANGED <<defaultDialect, firstKind, pageCalls, origin>>

KeyBuild == BuildQuery(1)

NextKeyset ==
  \/ KeySelect
  \/ KeyOrderBy
  \/ KeyWhereKeyset
  \/ KeyQueryKeyset
  \/ KeyBuild

SpecKeyset == InitKeyset /\ [][NextKeyset]_vars

\* An ordering expression without its Asc or Desc wrapper, and whether the
\* wrapper says descending.
Unwrapped(e) == IF e.k = "ordered" THEN e.c[1] ELSE e

Descending(e) == e.k = "ordered" /\ e.s = "DESC"

\* C18: a keyset call over n ordering expressions and n cursor values adds
\* an OR of n AND-groups; group i holds the equalities of the expressions
\* before the i-th with their cursor values and then one strict comparison of
\* the i-th expression with its cursor value, '>' forward and '<' backward,
\* the other way round when the i-th expression is wrapped by Desc; the
\* Build binds the cursor values group by group, n(n+1)/2 arguments.  The
\* call panics when there is no ordering or the numbers differ.
C18_KeysetGroups ==
  lastCall.op = "Keyset" =>
    LET ord == lastCall.before.orderBy
        cur == lastCall.expressions
        n == Len(ord)
        pred == heap[1].where.c[1]
        strict(e) == IF lastCall.all = Descending(e) THEN "<" ELSE ">"
    IN IF n = 0 \/ n # Len(cur) THEN err # "" /\ heap[1] = lastCall.before
       ELSE /\ err = ""
            /\ heap[1].where = And(<<pred>>)
            /\ pred.k = "compound" /\ pred.s = "OR" /\ Len(pred.c) = n
            /\ \A i \in 1..n :
                 LET g == pred.c[i]
                 IN /\ g.k = "compound" /\ g.s = "AND" /\ Len(g.c) = i
                    /\ \A j \in 1..i :
                         /\ g.c[j].k = "cmp"
                         /\ g.c[j].c = <<Unwrapped(ord[j]), Value(cur[j].s)>>
                         /\ g.c[j].s = IF j < i THEN "=" ELSE strict(ord[i])
            /\ (out.q = 1 /\ out.panic = "") =>
                 /\ out.args = Flatten([i \in 1..n |-> [j \in 1..i |-> cur[j].s]])
                 /\ 2 * Len(out.args) = n * (n + 1)

\* A backward keyset over two orderings, the second descending, has been
\* built and has bound three arguments.
C18_Witness ==
  /\ lastCall.op = "Keyset"
  /\ ~lastCall.all
  /\ Len(lastCall.before.orderBy) = 2
  /\ Descending(lastCall.before.orderBy[2])
  /\ out.q = 1
  /\ Len(out.args) = 3

\* The column named by an ordering given as a string, and whether the string
\* ends in DESC.
BareColumn(e) ==
  CASE e = Raw("id DESC", <<>>) -> Col("id")
    [] e = Raw("created_at ASC", <<>>) -> Col("created_at")
    [] OTHER -> Unwrapped(e)

EndsInDesc(e) == e = Raw("id DESC", <<>>) \/ Descending(e)

ConflictCalls == 5

ConflictTargets == {<<>>, <<"email">>}

ConflictSets ==
  {<<Set("name", Lit("v2"))>>,
   <<Set("name", Raw("EXCLUDED.name", <<>>)), Set("hits", Lit("v3"))>>}

InitConflict ==
  /\ InitBase
  /\ \E d \in Dialects : heap = [q \in QIds |-> IF q = 1 THEN New(d) ELSE ZeroQuery]
  /\ fuel = ConflictCalls

IsInsert(id) == heap[id].qType = queryTypeInsert

ConfInsertInto == Fresh(1) /\ InsertInto(1, Str("users"), <<"email">>)

ConfValues == IsInsert(1) /\ heap[1].insertValues = <<>> /\ Values(1, <<Lit("v1")>>)

ConfOnConflictDoNothing ==
  \E target \in ConflictTargets : IsInsert(1) /\ OnConflictDoNothing(1, target)

ConfOnConflictDoUpdate ==
  \E target \in ConflictTargets : \E sets \in ConflictSets :
    IsInsert(1) /\ OnConflictDoUpdate(1, target, sets)

ConfReturning == IsInsert(1) /\ heap[1].returning = <<>> /\ Returning(1, <<Col("id")>>)

ConfBuild == BuildQuery(1)

NextConflict ==
  \/ ConfInsertInto
  \/ ConfValues
  \/ ConfOnConflictDoNothing
  \/ ConfOnConflictDoUpdate
  \/ ConfReturning
  \/ ConfBuild

SpecConflict == InitConflict /\ [][NextConflict]_vars

\* The Build of Query 1 without its conflict handler and its RETURNING list.
BuildWithoutHandler ==
  Build([heap EXCEPT ![1].onConflictTarget = <<>>, ![1].onConflictSet = <<>>,
                     ![1].onConflictDoNothing = FALSE, ![1].returning = <<>>],
        defaultDialect, 1)

\* The words of the assignments of the handler, a literal as its
\* placeholder, and the literals in them.
AssignmentWords(sets) ==
  Flatten([i \in DOMAIN sets |->
             (IF i > 1 THEN <<",", " ">> ELSE <<>>)
               \o <<sets[i].s, " ", "=", " ",
                    IF sets[i].c[1].k = "raw" THEN sets[i].c[1].s ELSE "?">>])

AssignmentLiterals(sets) ==
  Flatten([i \in DOMAIN sets |->
             IF sets[i].c[1].k = "raw" THEN <<>> ELSE <<sets[i].c[1].s>>])

TargetWords(q) ==
  IF q.onConflictTarget = <<>> THEN <<>>
  ELSE <<" ", "(">> \o Flatten([i \in DOMAIN q.onConflictTarget |->
                                  (IF i > 1 THEN <<",", " ">> ELSE <<>>)
                                    \o <<q.onConflictTarget[i]>>]) \o <<")">>

\* C20: an INSERT with a conflict handler renders, after VALUES and before
\* RETURNING, under MySQL ' ON DUPLICATE KEY UPDATE <assignments>' without
\* target columns, and nothing for a do-nothing handler, and under the other
\* dialect ' ON CONFLICT', the target columns in parentheses when there are
\* some, and ' DO NOTHING' or ' DO UPDATE SET <assignments>'; the literals of
\* the assignments are bound after the values of the rows.
C20_ConflictClausePerDialect ==
  LET q == heap[1]
      sets == q.onConflictSet
      mysql == out.dialect = dialectMySQL
      clause ==
        IF mysql
        THEN IF q.onConflictDoNothing THEN <<>>
             ELSE <<" ", "ON DUPLICATE KEY UPDATE", " ">> \o AssignmentWords(sets)
        ELSE <<" ", "ON CONFLICT">> \o TargetWords(q)
               \o (IF q.onConflictDoNothing THEN <<" ", "DO NOTHING">>
                   ELSE <<" ", "DO UPDATE SET", " ">> \o AssignmentWords(sets))
      returning == IF q.returning = <<>> THEN <<>> ELSE <<" ", "RETURNING", " ", "id">>
  IN (/\ out.q = 1 /\ out.panic = "" /\ IsInsert(1)
      /\ (q.onConflictDoNothing \/ sets # <<>>)) =>
       /\ Norm(out.sql) = Norm(BuildWithoutHandler.sql) \o clause \o returning
       /\ out.args = BuildWithoutHandler.args
                       \o (IF q.onConflictDoNothing THEN <<>> ELSE AssignmentLiterals(sets))

(***************************************************************************)
(* CTE scenarios: a SELECT with a literal gets up to MaxCTEs CTEs, each    *)
(* plain or recursive, over two SELECTs with literals of their own, and    *)
(* is built.                                                               *)
(***************************************************************************)
CteCalls == 4

InitCte ==
  /\ InitBase
  /\ \E d \in Dialects :
       heap = [q \in QIds |->
                 CASE q = 1 -> QueryWhere(QuerySelect(New(d), <<Col("a")>>),
                                          <<Eq(ColA, Lit("v1"))>>)
                   [] q = 2 -> QueryWhere(QuerySelect(New(d), <<Col("b")>>),
                                          <<Eq(Col("b"), Lit("v2"))>>)
                   [] q = 3 -> QuerySelect(New(d), <<Lit("v3")>>)
                   [] OTHER -> ZeroQuery]
  /\ fuel = CteCalls

CteName(id) == "c" \o ToString(Len(heap[id].ctes) + 1)

CteWith ==
  \E j \in {2, 3} : Len(heap[1].ctes) < MaxCTEs /\ With(1, CteName(1), j)

CteWithRecursive ==
  \E j \in {2, 3} : Len(heap[1].ctes) < MaxCTEs /\ WithRecursive(1, CteName(1), j)

CteBuild == BuildQuery(1)

NextCte ==
  \/ CteWith
  \/ CteWithRecursive
  \/ CteBuild

SpecCte == InitCte /\ [][NextCte]_vars

\* The Build of Query 1 without its CTEs, and the Build of its i-th CTE alone.
BuildWithoutCTEs == Build([heap EXCEPT ![1].ctes = <<>>], defaultDialect, 1)

BuildOfCTE(i) == Build(heap, defaultDialect, heap[1].ctes[i].q)

\* C21: the Build of a statement with CTEs is 'WITH ', then 'RECURSIVE '
\* once when and only when some CTE of the block was added by
\* WithRecursive, then the CTEs in the order they were added, each as
\* 'name AS (its statement)' and joined by ', ', then the statement itself;
\* the arguments are those of the CTEs in that order and then those of the
\* statement.
C21_CteBlock ==
  LET ctes == heap[1].ctes
      n == Len(ctes)
      recursive == \E i \in 1..n : ctes[i].b
      words == Norm(out.sql)
      block ==
        Flatten([i \in 1..n |->
                   (IF i > 1 THEN <<",", " ">> ELSE <<>>)
                     \o <<ctes[i].s, " ", "AS", " ", "(">>
                     \o Norm(BuildOfCTE(i).sql) \o <<")">>])
  IN (out.q = 1 /\ out.panic = "" /\ n > 0) =>
       /\ words = <<"WITH", " ">> \o (IF recursive THEN <<"RECURSIVE", " ">> ELSE <<>>)
                    \o block \o <<" ">> \o Norm(BuildWithoutCTEs.sql)
       /\ Cardinality({i \in DOMAIN words : words[i] = "RECURSIVE"})
            = IF recursive THEN 1 ELSE 0
       /\ out.args = Flatten([i \in 1..n |-> BuildOfCTE(i).args]) \o BuildWithoutCTEs.args

\* A statement whose second and third CTEs are recursive and whose first is
\* not has been built.
C21_Witness ==
  /\ out.q = 1
  /\ out.panic = ""
  /\ Len(heap[1].ctes) = 3
  /\ ~heap[1].ctes[1].b
  /\ heap[1].ctes[2].b
  /\ heap[1].ctes[3].b

(***************************************************************************)
(* RAW scenarios: Queries are made by RawQuery from texts with and without *)
(* spaces at their ends and placeholders of both styles, with up to two    *)
(* arguments, get a dialect or not, and are built under either default.    *)
(***************************************************************************)
RawCalls == 3

RawTexts ==
  {<<"SELECT", " ", "now()">>,
   <<" ", "SELECT", " ", "?", ",", " ", "?", " ", " ">>,
   <<"SELECT", " ", "$2", ",", " ", "$1">>,
   <<" ">>}

RawArguments == SeqsUpTo({"r1", "r2"}, 2)

InitRaw ==
  /\ InitBase
  /\ heap = [q \in QIds |-> ZeroQuery]
  /\ fuel = RawCalls

RawRawQuery ==
  \E id \in {1, 2} : \E sql \in RawTexts : \E args \in RawArguments :
    NewRawQuery(id, sql, args)

RawWithDialect == \E id \in {1, 2} : \E d \in Dialects : WithDialect(id, d)

RawSetDefaultDialect == \E d \in Dialects : defaultDialect # d /\ SetDefaultDialect(d)

RawBuild == \E id \in {1, 2} : BuildQuery(id)

NextRaw ==
  \/ RawRawQuery
  \/ RawWithDialect
  \/ RawSetDefaultDialect
  \/ RawBuild

SpecRaw == InitRaw /\ [][NextRaw]_vars

\* The characters of a rendered text, placeholders included as written.
Characters(text) == [i \in DOMAIN text |-> text[i].s]

\* A RAW Query has been built.
RawBuilt == out.q # 0 /\ heap[out.q].qType = queryTypeRaw

\* The stored text between its first and its last character that is not a
\* space.
Inner(sql) ==
  LET solid == {i \in DOMAIN sql : sql[i] # " "}
      first == CHOOSE i \in solid : \A j \in solid : i <= j
      last == CHOOSE i \in solid : \A j \in solid : j <= i
  IN IF solid = {} THEN <<>> ELSE SubSeq(sql, first, last)

\* C22 as stated: the Build of a RAW Query returns the stored text character
\* for character, nothing trimmed and no placeholder renumbered, and the
\* stored arguments in their order.
C22_RawVerbatim ==
  RawBuilt =>
    /\ out.panic = ""
    /\ Characters(out.sql) = heap[out.q].rawSQL
    /\ out.args = heap[out.q].rawArgs

\* C22 amended: the Build of a RAW Query returns the stored text without the
\* spaces at its two ends and otherwise character for character, no
\* placeholder renumbered, and the stored arguments in their order.
C22_RawTrimmedOnly ==
  RawBuilt =>
    /\ out.panic = ""
    /\ Characters(out.sql) = Inner(heap[out.q].rawSQL)
    /\ out.args = heap[out.q].rawArgs

\* A RAW Query whose text has spaces at both ends and two arguments has been
\* built under the numbered-placeholder dialect.
C22_Witness ==
  /\ RawBuilt
  /\ out.dialect = dialectPostgres
  /\ Head(heap[out.q].rawSQL) = " "
  /\ Len(heap[out.q].rawSQL) > 1
  /\ Len(out.args) = 2

(***************************************************************************)
(* Cancellation scenarios: goroutines call BuildContext on prepared        *)
(* Queries, each with a cancellation context of its own that is cancelled  *)
(* or passes its deadline at any moment, before the call, during the       *)
(* render or after it.                                                     *)
(***************************************************************************)
CancelCalls == 2

ContextErrors == {"context canceled", "context deadline exceeded"}

InitCancel ==
  /\ InitBase
  /\ \E d \in Dialects :
       heap = Prepared(d, QueryUpdate(New(d), Str("t")))
  /\ fuel = CancelCalls

CancelContextDone == \E t \in Threads : \E reason \in ContextErrors : ContextDone(t, reason)

CancelBegin == \E t \in Threads : \E id \in {1, 3} : BuildContextBegin(t, id)

CancelEnter == \E t \in Threads : BuildEnter(t)

CancelStep == \E t \in Threads : BuildStep(t)

CancelReturn == \E t \in Threads : BuildReturn(t)

NextCancel ==
  \/ CancelContextDone
  \/ CancelBegin
  \/ CancelEnter
  \/ CancelStep
  \/ CancelReturn

SpecCancel == InitCancel /\ [][NextCancel]_vars

\* C23: a BuildContext call reads the state of its context once, before the
\* render.  A call that found the context done has returned that error and
\* neither SQL nor arguments nor a panic, and has not rendered; a call that
\* found it live renders to the end and returns what Build returns, also
\* when the context is done by then.
C23_CancellationCheckedOnce ==
  \A t \in Threads :
    LET th == threads[t]
    IN th.op = "BuildContext" =>
         /\ th.seen # "" => /\ th.pc = "done"
                            /\ th.err = th.seen
                            /\ th.ret = NoRet
                            /\ th.parts = <<>>
         /\ (th.seen = "" /\ th.pc = "done") =>
              LET alone == Build(heap, defaultDialect, th.q)
              IN /\ th.err = ""
                 /\ th.ret.panic = alone.panic
                 /\ th.ret.sql = alone.sql
                 /\ th.ret.args = alone.args

\* One call has returned the cancellation error, and another, whose context
\* was done during its render, has returned SQL with arguments.
C23_Witness ==
  \E t \in Threads : \E u \in Threads \ {t} :
    /\ threads[t].op = "BuildContext" /\ threads[t].pc = "done"
    /\ threads[t].err = "context canceled"
    /\ threads[u].op = "BuildContext" /\ threads[u].pc = "done"
    /\ threads[u].seen = "" /\ threads[u].ctxErr # ""
    /\ threads[u].ret.sql # <<>> /\ threads[u].ret.args # <<>>

\* C24: under the numbered-placeholder dialect, every placeholder of the
\* built SQL carries the numeral of the position, in the returned
\* arguments, of the value it was issued for, also after a raw fragment or a
\* RAW subquery with arguments of its own.
C24_NumeralIsArgPosition ==
  (out.q # 0 /\ out.panic = "" /\ out.dialect = dialectPostgres) =>
    \A i \in DOMAIN out.sql :
      out.sql[i].n > 0 =>
        /\ out.sql[i].s = "$" \o ToString(out.sql[i].n)
        /\ out.sql[i].a = <<out.sql[i].n>>

(***************************************************************************)
(* Operand scenarios: three SELECTs, each of a literal of its own, get     *)
(* WHERE predicates and union partners, so that a partner of Query 1 can   *)
(* have a partner of its own, and Query 1 is built.                        *)
(***************************************************************************)
OperandCalls == 4

InitOperand ==
  /\ InitBase
  /\ \E d \in Dialects :
       heap = [q \in QIds |->
                 IF q \in {1, 2, 3} THEN QuerySelect(New(d), <<Lit("v" \o ToString(q))>>)
                 ELSE ZeroQuery]
  /\ fuel = OperandCalls

OperandWhere ==
  \E id \in {1, 2, 3} :
    /\ heap[id].where.k = "nil"
    /\ Where(id, <<Eq(ColA, Lit("w" \o ToString(id)))>>)

OperandUnion ==
  \E id \in {1, 2} : \E j \in {2, 3} : \E all \in BOOLEAN :
    /\ j > id
    /\ \A i \in DOMAIN heap[id].unions : heap[id].unions[i].q # j
    /\ Union(id, all, <<j>>)

OperandBuild == BuildQuery(1)

NextOperand ==
  \/ OperandWhere
  \/ OperandUnion
  \/ OperandBuild

SpecOperand == InitOperand /\ [][NextOperand]_vars

\* The partners of a Query, and the Queries attached to Query 1 through
\* union clauses, directly or through a partner.
Partners(id) == {heap[id].unions[i].q : i \in DOMAIN heap[id].unions}

Attached == Partners(1) \cup UNION {Partners(j) : j \in Partners(1)}

\* C25: every Query attached to the built Query through union clauses,
\* directly or as a partner of a partner, is in the SQL: there is one UNION
\* or UNION ALL for every union clause of the built Query and of the
\* Queries attached to it, and the literal of every attached Query is among
\* the arguments.
C25_NoPartnerDropped ==
  (out.q = 1 /\ out.panic = "") =>
    /\ \A j \in Attached : ("v" \o ToString(j)) \in Range(out.args)
    /\ Cardinality({i \in DOMAIN out.sql : out.sql[i].s \in {"UNION", "UNION ALL"}})
         = Len(heap[1].unions) + Len(heap[2].unions) * (IF 2 \in Attached THEN 1 ELSE 0)

\* C26: the conflict handler set last is the one rendered, under either
\* dialect: the SQL of an INSERT whose last handler call was
\* OnConflictDoNothing has no assignment of an earlier OnConflictDoUpdate
\* and no ON DUPLICATE KEY UPDATE, and the SQL of one whose last handler
\* call was OnConflictDoUpdate has no DO NOTHING.
C26_LastHandlerWins ==
  LET words == Range(Norm(out.sql))
  IN (out.q = 1 /\ out.panic = "" /\ IsInsert(1)) =>
       /\ heap[1].onConflictDoNothing =>
            words \cap {"ON DUPLICATE KEY UPDATE", "DO UPDATE SET", "name", "hits"} = {}
       /\ (~heap[1].onConflictDoNothing /\ heap[1].onConflictSet # <<>>) =>
            "DO NOTHING" \notin words

\* C27: a Union or UnionAll call that panics leaves its receiver as it was
\* before the call: no operand of the call is among the receiver's partners,
\* and the receiver has partners after the call only if it had some before.
C27_PanickedUnionLeavesReceiver ==
  (lastCall.op = "Union" /\ err # "") =>
    /\ heap[lastCall.id].unions = lastCall.before.unions
    /\ heap[lastCall.id] = lastCall.before

(***************************************************************************)
(* Join scenarios: a SELECT gets joins whose ON predicates are absent,     *)
(* comparisons, or compounds over nothing, and a WHERE of the same kinds,  *)
(* and is built.                                                           *)
(***************************************************************************)
JoinCalls == 4

OnInputs ==
  {<<>>, <<Eq(ColA, Lit("v1"))>>, <<And(<<>>)>>, <<Or(<<>>)>>,
   <<And(<<>>), Eq(Col("b"), Lit("v2"))>>}

InitJoin ==
  /\ InitBase
  /\ \E d \in Dialects :
       heap = [q \in QIds |->
                 IF q = 1 THEN QueryFrom(QuerySelect(New(d), <<Col("id")>>), Str("t"))
                 ELSE ZeroQuery]
  /\ fuel = JoinCalls

JoinJoin ==
  \E on \in OnInputs :
    Len(heap[1].joins) < MaxJoins /\ Join(1, Str("u" \o ToString(Len(heap[1].joins) + 1)), on)

JoinLeftJoin ==
  \E on \in OnInputs :
    Len(heap[1].joins) < MaxJoins
      /\ LeftJoin(1, Str("u" \o ToString(Len(heap[1].joins) + 1)), on)

JoinWhere ==
  \E on \in OnInputs : on # <<>> /\ heap[1].where.k = "nil" /\ Where(1, on)

JoinBuild == BuildQuery(1)

NextJoin ==
  \/ JoinJoin
  \/ JoinLeftJoin
  \/ JoinWhere
  \/ JoinBuild

SpecJoin == InitJoin /\ [][NextJoin]_vars

\* The predicate renders to empty text.
RendersEmpty(p) == build(heap, newBuildContext(out.dialect), p).sql = <<>>

\* C28: the SQL has one ON for every join whose ON predicate renders to
\* text and none for a join whose predicates all render to empty text, as
\* WHERE does; every ON is followed by the text of its predicate.
C28_NoDanglingOn ==
  LET joins == heap[1].joins
      ons == {i \in DOMAIN out.sql : out.sql[i].s = "ON"}
  IN (out.q = 1 /\ out.panic = "") =>
       /\ Cardinality(ons) = Cardinality({i \in DOMAIN joins : ~RendersEmpty(joins[i].c[2])})
       /\ \A i \in ons : i + 2 <= Len(out.sql) /\ out.sql[i + 2].s = "("
       /\ ("WHERE" \in Range(Norm(out.sql))) = ~RendersEmpty(heap[1].where)

(***************************************************************************)
(* Nested-dialect scenarios: Query 1 nests Query 2 as a subquery           *)
(* expression, a derived table, a CTE or a union partner; Query 2 selects  *)
(* a literal or a JSON extraction, both Queries get dialects of their own  *)
(* or none, the default changes, and Query 1 is built.                     *)
(***************************************************************************)
ForeignCalls == 4

InitForeign ==
  /\ InitBase
  /\ \E d \in Dialects : \E e \in Dialects :
       heap = [q \in QIds |->
                 CASE q = 1 -> QuerySelect(New(d), <<Lit("v1")>>)
                   [] q = 2 -> New(e)
                   [] OTHER -> ZeroQuery]
  /\ fuel = ForeignCalls

ForeignInner ==
  \E c \in {Lit("v2"), JSONExtract("doc", Lit("v3"))} : Fresh(2) /\ Select(2, <<c>>)

ForeignWithDialect ==
  \E id \in {1, 2} : \E d \in Dialects \cup {NilDialect} :
    heap[id].dialect # d /\ WithDialect(id, d)

ForeignSetDefaultDialect == \E d \in Dialects : defaultDialect # d /\ SetDefaultDialect(d)

ForeignWhere ==
  IsSelect(2) /\ heap[1].where.k = "nil" /\ Where(1, <<ColumnIn(ColA, <<QPtr(2)>>)>>)

ForeignFrom == IsSelect(2) /\ heap[1].from.k = "nil" /\ From(1, QPtr(2))

ForeignWith == IsSelect(2) /\ heap[1].ctes = <<>> /\ With(1, "c", 2)

ForeignUnion == \E all \in BOOLEAN : heap[1].unions = <<>> /\ Union(1, all, <<2>>)

ForeignBuild == BuildQuery(1)

NextForeign ==
  \/ ForeignInner
  \/ ForeignWithDialect
  \/ ForeignSetDefaultDialect
  \/ ForeignWhere
  \/ ForeignFrom
  \/ ForeignWith
  \/ ForeignUnion
  \/ ForeignBuild

SpecForeign == InitForeign /\ [][NextForeign]_vars

\* Query 2 is nested in Query 1.
Nests ==
  \/ heap[1].ctes # <<>>
  \/ heap[1].unions # <<>>
  \/ heap[1].from.k # "nil"
  \/ heap[1].where.k # "nil"

\* C29: the Build of a Query that nests another is the Build of the same
\* Query with the nested Query under any other dialect setting: the SQL,
\* the arguments and the panic are the same, and every placeholder is in
\* the style of the dialect of the Query that was built.
C29_NestedUnderTopDialect ==
  (out.q = 1 /\ Nests) =>
    /\ \A d \in Dialects \cup {NilDialect} :
         LET other == Build([heap EXCEPT ![2].dialect = d], out.dialect, 1)
         IN /\ other.panic = out.panic
            /\ other.sql = out.sql
            /\ other.args = out.args
    /\ \A i \in DOMAIN out.sql :
         out.sql[i].n > 0 => out.sql[i].s = placeholder(out.dialect, out.sql[i].n)

\* A Query under the numbered-placeholder dialect has been built with a CTE
\* whose Query is under the other dialect and binds a literal.
C29_Witness ==
  /\ out.q = 1
  /\ out.panic = ""
  /\ out.dialect = dialectPostgres
  /\ heap[1].ctes # <<>>
  /\ heap[2].dialect = dialectMySQL
  /\ "v2" \in Range(out.args)

(***************************************************************************)
(* Step scenarios: goroutines build a SELECT over two derived tables       *)
(* without aliases, the same Query twice or two Queries, with literals and *)
(* a raw fragment with an argument of its own, under either dialect; the   *)
(* build context of each call is looked at after every step.               *)
(***************************************************************************)
StepCalls == 2

InitSteps ==
  /\ InitBase
  /\ \E d \in Dialects : \E j \in {2, 3} :
       heap = [q \in QIds |->
                 CASE q = 1 ->
                        QueryWhere(
                          Queryjoin(QueryFrom(QuerySelect(New(d), <<Lit("v1")>>), QPtr(2)),
                                    "JOIN", QPtr(j), <<Eq(ColA, Lit("v4"))>>),
                          <<ColumnIn(ColA, <<Raw("x + ?", <<"r1">>), Lit("v5")>>)>>)
                   [] q = 2 -> QueryWhere(QuerySelect(New(d), <<Col("b")>>),
                                          <<Eq(Col("b"), Lit("v2"))>>)
                   [] q = 3 -> QuerySelect(New(d), <<Lit("v3")>>)
                   [] OTHER -> ZeroQuery]
  /\ fuel = StepCalls

StepsBegin == \E t \in Threads : \E id \in {1, 2} : BuildBegin(t, id)

StepsEnter == \E t \in Threads : BuildEnter(t)

StepsStep == \E t \in Threads : BuildStep(t)

StepsReturn == \E t \in Threads : BuildReturn(t)

NextSteps ==
  \/ StepsBegin
  \/ StepsEnter
  \/ StepsStep
  \/ StepsReturn

SpecSteps == InitSteps /\ [][NextSteps]_vars

\* The build context of goroutine t, while its call runs or after it.
InUse(t) == threads[t].pc # "idle"

IsPrefix(s, t) == Len(s) <= Len(t) /\ SubSeq(t, 1, Len(s)) = s

\* The counters of a build context agree with what it holds, now and at
\* every event of its render so far.
ContextConsistent(ctx) ==
  LET issued == {i \in DOMAIN ctx.trace : ctx.trace[i].ev = "ph"}
      named == {q \in QIds : ctx.subqueryAliases[q] # ""}
  IN /\ ctx.placeholderIndex = Cardinality(issued)
     /\ ctx.placeholderIndex <= Len(ctx.args)
     /\ ctx.subqueryAlias = Cardinality(named)
     /\ \A q \in named : \A r \in named \ {q} :
          ctx.subqueryAliases[q] # ctx.subqueryAliases[r]
     /\ \A i \in DOMAIN ctx.trace :
          /\ ctx.trace[i].p <= ctx.trace[i].m
          /\ \A k \in 1..(i - 1) :
               ctx.trace[k].m <= ctx.trace[i].m /\ ctx.trace[k].p <= ctx.trace[i].p

\* C30: at every step of a render the placeholder counter of the build
\* context is the number of placeholders issued so far and at most the
\* number of arguments, the alias counter is the number of entries of the
\* alias table, no two Queries have the same alias, and a step only appends
\* to the arguments: those already there stay where they are.
C30_ContextInvariants ==
  /\ [](\A t \in Threads : InUse(t) => ContextConsistent(contexts[threads[t].ctx]))
  /\ [][\A t \in Threads :
          (InUse(t) /\ threads'[t].pc # "enter") =>
            /\ IsPrefix(contexts[threads[t].ctx].args, contexts'[threads[t].ctx].args)
            /\ contexts[threads[t].ctx].placeholderIndex
                 <= contexts'[threads[t].ctx].placeholderIndex
            /\ contexts[threads[t].ctx].dialect = contexts'[threads[t].ctx].dialect]_vars

\* A render that has not returned has issued two aliases and five
\* placeholders and holds six arguments, one of them of a raw fragment.
C30_Witness ==
  \E t \in Threads :
    /\ threads[t].pc = "render"
    /\ contexts[threads[t].ctx].subqueryAlias = 2
    /\ contexts[threads[t].ctx].placeholderIndex = 5
    /\ Len(contexts[threads[t].ctx].args) = 6

====
